---- MODULE Spec2Model ----
(***************************************************************************)
(* A model of the simulation core of kill-monsters: Player, Monster,       *)
(* Equipment, the chunked map store and the spatial utilities.             *)
(*                                                                         *)
(* Numbers.  The program computes with JavaScript doubles.  Health, damage *)
(* and maxHealth take fractional values (x0.5, x0.8, x1.5), so the model   *)
(* keeps them in fixed point: one unit of health is Scale model units.     *)
(* Scale = 64 * 5 makes every product by 0.8 and every chain of up to five *)
(* halvings exact on the values the model draws.  attack, defense, level   *)
(* and experience are whole numbers in the program and stay unscaled.      *)
(***************************************************************************)
EXTENDS Integers, Sequences, FiniteSets, TLC

VARIABLES
    player,      \* the Player object (Player.ts fields)
    items,       \* the heap of Equipment objects, indexed by reference
    monsters,    \* the list of Monster objects
    now,         \* Date.now(), in ms
    last,        \* the last operation performed and what it observed
    steps,       \* how many operations the run has performed
    mapGen,      \* the MapGenerator: seed, activeChunkRadius, chunks
    mathRandom,  \* the state of the engine's Math.random generator
    evicted,     \* obstacle lists of the chunks cleanupDistantChunks deleted
    chunkObj,    \* stand-alone Chunk objects (handle -> Chunk)
    wc,          \* inputs and result of willCollide
    loot,        \* inputs and result of EquipmentFactory.generateRarity
    skillHeap,   \* the Skill objects: instances and the copies learnSkill makes
    playerSkills,\* player.skills, a list of references into skillHeap
    game         \* the GameSystem: tick position, flags, score, effects

vars == <<player, items, monsters, now, last, steps, mapGen, mathRandom,
          evicted, chunkObj, wc, loot, skillHeap, playerSkills, game>>

playerVars == <<player, items>>

combatVars == <<monsters, now>>

mapVars == <<mapGen, mathRandom, evicted, chunkObj>>

pureVars == <<wc, loot>>

tickVars == <<skillHeap, playerSkills, game>>

Scale == 64 * 5

Min(a, b) == IF a < b THEN a ELSE b

Max(a, b) == IF a > b THEN a ELSE b

Abs(a) == IF a < 0 THEN 0 - a ELSE a

\* Math.floor(a / b) for b > 0 and any integer a (TLA+ \div floors already)
FloorDiv(a, b) == a \div b

NoOp == [op |-> "none"]

\* no skill exists and no GameSystem has been constructed
IdleTick == skillHeap = <<>> /\ playerSkills = <<>> /\ game = NoOp

-----------------------------------------------------------------------------
(* Equipment objects.  A stat that is absent from item.stats is 0 here: the *)
(* generators never produce a 0 attack, defense or maxHealth.  methods is  *)
(* TRUE for an instance of BaseEquipment (it has applyEffect/removeEffect) *)
(* and FALSE for a plain object: a dropLoot literal, or the spread copy    *)
(* made by Player.addEquipment, which keeps own fields only.               *)

Item(id, type, attack, defense, maxHealth, methods) ==
    [id |-> id, type |-> type, attack |-> attack, defense |-> defense,
     maxHealth |-> maxHealth, isEquipped |-> FALSE, methods |-> methods]

\* BaseEquipment.applyEffect
applyEffect(p, item) ==
    [p EXCEPT !.attack = @ + item.attack,
              !.defense = @ + item.defense,
              !.maxHealth = @ + item.maxHealth * Scale,
              !.health = IF item.maxHealth # 0
                         THEN Min(p.health + item.maxHealth * Scale,
                                  p.maxHealth + item.maxHealth * Scale)
                         ELSE @]

\* BaseEquipment.removeEffect
removeEffect(p, item) ==
    [p EXCEPT !.attack = @ - item.attack,
              !.defense = @ - item.defense,
              !.maxHealth = @ - item.maxHealth * Scale,
              !.health = IF item.maxHealth # 0
                         THEN Max(1 * Scale, p.health - item.maxHealth * Scale)
                         ELSE @]

\* Array.prototype.find / indexOf: index of the first element satisfying the
\* test, 0 if there is none; hits is the set of indices that satisfy it
FindFirst(hits) ==
    IF hits = {} THEN 0 ELSE CHOOSE i \in hits : \A j \in hits : i <= j

\* Array.prototype.splice(index, 1)
RemoveAt(seq, index) ==
    SubSeq(seq, 1, index - 1) \o SubSeq(seq, index + 1, Len(seq))

\* new Player(): the constructor's field values
NewPlayer ==
    [x |-> 0, y |-> 0, health |-> 100 * Scale, maxHealth |-> 100 * Scale,
     level |-> 1, attack |-> 20, defense |-> 5,
     experience |-> 0, experienceToNextLevel |-> 100,
     equipment |-> <<>>, inventory |-> <<>>,
     attackSpeed |-> 1000, lastAttackTime |-> 0, skillPoints |-> 0]

\* EquipmentManager.equipToPlayer(player, equipment); e is the reference
EquipmentManager_equipToPlayer(p, heap, e) ==
    LET SameType(r) == heap[r].type = heap[e].type
        oldIndex == FindFirst({i \in 1..Len(p.equipment) : SameType(p.equipment[i])})
        old == IF oldIndex = 0 THEN 0 ELSE p.equipment[oldIndex]
        NotOld(r) == heap[r].id # heap[old].id
        p1 == IF old = 0 THEN p
              ELSE [(IF heap[old].methods THEN removeEffect(p, heap[old]) ELSE p)
                      EXCEPT !.inventory = Append(p.inventory, old),
                             !.equipment = SelectSeq(p.equipment, NotOld)]
        p2 == IF heap[e].methods THEN applyEffect(p1, heap[e]) ELSE p1
    IN  [player |-> [p2 EXCEPT !.equipment = Append(@, e)],
         items |-> [heap EXCEPT ![e].isEquipped = TRUE],
         replaced |-> old]

\* EquipmentManager.unequipFromPlayer(player, equipment)
EquipmentManager_unequipFromPlayer(p, heap, e) ==
    LET Same(r) == r = e
        index == FindFirst({i \in 1..Len(p.equipment) : Same(p.equipment[i])})
    IN  IF index = 0 THEN [player |-> p, items |-> heap, result |-> FALSE]
        ELSE [player |->
                [(IF heap[e].methods THEN removeEffect(p, heap[e]) ELSE p)
                   EXCEPT !.equipment = RemoveAt(p.equipment, index),
                          !.inventory = Append(p.inventory, e)],
              items |-> [heap EXCEPT ![e].isEquipped = FALSE],
              result |-> TRUE]

\* Player.addEquipment(equipment): pushes a spread copy, a new object
Player_addEquipment(p, heap, e) ==
    [player |-> [p EXCEPT !.equipment = Append(@, Len(heap) + 1)],
     items |-> Append(heap, [heap[e] EXCEPT !.isEquipped = FALSE,
                                           !.methods = FALSE])]

\* Player.equipItem(equipmentId)
Player_equipItem(p, heap, equipmentId) ==
    LET HasId(r) == heap[r].id = equipmentId
        index == FindFirst({i \in 1..Len(p.equipment) : HasId(p.equipment[i])})
        ref == IF index = 0 THEN 0 ELSE p.equipment[index]
        inList == {p.equipment[i] : i \in 1..Len(p.equipment)}
    IN  IF index = 0 THEN heap
        ELSE IF heap[ref].isEquipped THEN [heap EXCEPT ![ref].isEquipped = FALSE]
        ELSE [r \in DOMAIN heap |->
                IF r = ref THEN [heap[r] EXCEPT !.isEquipped = TRUE]
                ELSE IF r \in inList /\ heap[r].type = heap[ref].type
                THEN [heap[r] EXCEPT !.isEquipped = FALSE]
                ELSE heap[r]]

-----------------------------------------------------------------------------
(* Equipment operations (Player.addEquipment, Player.equipItem and the     *)
(* EquipmentManager), on a pool of equipment objects that exist outside    *)
(* the player: two Weapon instances, one Armor instance and one plain      *)
(* object as Monster.dropLoot builds it.                                   *)

MaxCopies == 1

MaxInventory == 1

EquipmentPool ==
    << Item("w1", "WEAPON", 12, 0, 0, TRUE),
       Item("w2", "WEAPON", 30, 0, 0, TRUE),
       Item("a1", "ARMOR", 0, 8, 30, TRUE),
       Item("l1", "ARMOR", 0, 5, 10, FALSE) >>

PoolRefs == 1..Len(EquipmentPool)

\* the objects reachable from the player's two lists
Held(p) ==
    {p.equipment[i] : i \in 1..Len(p.equipment)} \cup
    {p.inventory[i] : i \in 1..Len(p.inventory)}

AddEquipment(e) ==
    /\ Len(items) < Len(EquipmentPool) + MaxCopies
    /\ LET r == Player_addEquipment(player, items, e)
       IN  /\ player' = r.player
           /\ items' = r.items
    /\ last' = [op |-> "addEquipment"]
    /\ UNCHANGED <<tickVars, combatVars, steps, mapVars, pureVars>>

EquipItem(equipmentId) ==
    /\ items' = Player_equipItem(player, items, equipmentId)
    /\ last' = [op |-> "equipItem"]
    /\ UNCHANGED <<tickVars, player, combatVars, steps, mapVars, pureVars>>

EquipToPlayer(e) ==
    /\ Len(player.inventory) < MaxInventory
    /\ LET r == EquipmentManager_equipToPlayer(player, items, e)
       IN  /\ player' = r.player
           /\ items' = r.items
           /\ last' = [op |-> "equipToPlayer", e |-> e, replaced |-> r.replaced,
                       oldWasEquipped |->
                           IF r.replaced = 0 THEN FALSE
                           ELSE items[r.replaced].isEquipped,
                       attackBefore |-> player.attack]
    /\ UNCHANGED <<tickVars, combatVars, steps, mapVars, pureVars>>

UnequipFromPlayer(e) ==
    /\ Len(player.inventory) < MaxInventory
    /\ LET r == EquipmentManager_unequipFromPlayer(player, items, e)
       IN  /\ player' = r.player
           /\ items' = r.items
           /\ last' = [op |-> "unequipFromPlayer", e |-> e, result |-> r.result]
    /\ UNCHANGED <<tickVars, combatVars, steps, mapVars, pureVars>>

IdleMap ==
    /\ mapGen = <<>> /\ mathRandom = 0 /\ evicted = <<>> /\ chunkObj = <<>>

IdlePure == wc = NoOp /\ loot = NoOp

InitEquip ==
    /\ player = NewPlayer
    /\ items = EquipmentPool
    /\ monsters = <<>>
    /\ now = 0
    /\ last = NoOp
    /\ steps = 0
    /\ IdleTick
    /\ IdleMap
    /\ IdlePure

NextEquip ==
    \/ \E e \in PoolRefs : AddEquipment(e)
    \/ \E e \in PoolRefs : EquipItem(EquipmentPool[e].id)
    \/ \E e \in DOMAIN items : EquipToPlayer(e)
    \/ \E e \in DOMAIN items : UnequipFromPlayer(e)

SpecEquip == InitEquip /\ [][NextEquip]_vars

\* C4: when equipToPlayer equips a WEAPON while another WEAPON is equipped,
\* the old weapon's effect is removed, the old weapon moves to the inventory,
\* the new weapon's effect is applied, and exactly one WEAPON among all the
\* items the player holds has isEquipped = TRUE.
C4_SwapLeavesOneEquippedWeapon ==
    (/\ last.op = "equipToPlayer"
     /\ items[last.e].type = "WEAPON"
     /\ last.replaced # 0
     /\ last.replaced # last.e
     /\ last.oldWasEquipped)
    => LET old == items[last.replaced]
           new == items[last.e]
           InEquipment(r) == \E i \in 1..Len(player.equipment) : player.equipment[i] = r
           InInventory(r) == \E i \in 1..Len(player.inventory) : player.inventory[i] = r
       IN  /\ InInventory(last.replaced)
           /\ ~InEquipment(last.replaced)
           /\ InEquipment(last.e)
           /\ player.attack = last.attackBefore
                                - (IF old.methods THEN old.attack ELSE 0)
                                + (IF new.methods THEN new.attack ELSE 0)
           /\ Cardinality({r \in Held(player) :
                             items[r].type = "WEAPON" /\ items[r].isEquipped}) = 1

\* C15: whatever sequence of addEquipment, equipItem, equipToPlayer and
\* unequipFromPlayer has run, at most one item of each equipment type among
\* the items the player holds has isEquipped = TRUE.
C15_AtMostOneEquippedPerType ==
    \A type \in {"WEAPON", "ARMOR", "ACCESSORY"} :
        Cardinality({r \in Held(player) :
                        items[r].type = type /\ items[r].isEquipped}) <= 1

\* Specification SpecManager: addEquipment and the two EquipmentManager
\* operations, without Player.equipItem.
NextManager ==
    \/ \E e \in PoolRefs : AddEquipment(e)
    \/ \E e \in DOMAIN items : EquipToPlayer(e)
    \/ \E e \in DOMAIN items : UnequipFromPlayer(e)

SpecManager == InitEquip /\ [][NextManager]_vars

\* how many entries of a list are the reference r
Occurrences(seq, r) == Cardinality({i \in 1..Len(seq) : seq[i] = r})

\* C16: after any sequence of addEquipment, equipToPlayer and
\* unequipFromPlayer, every item the player holds is referenced exactly once,
\* in exactly one of player.equipment and player.inventory.
C16_HeldInExactlyOneList ==
    \A r \in Held(player) :
        Occurrences(player.equipment, r) + Occurrences(player.inventory, r) = 1

\* the sum of stat(items[list[i]]) over the entries of list that are flagged
\* isEquipped
RECURSIVE EquippedSum(_, _, _, _)
EquippedSum(list, heap, i, stat) ==
    IF i > Len(list) THEN 0
    ELSE (IF heap[list[i]].isEquipped THEN heap[list[i]][stat] ELSE 0)
           + EquippedSum(list, heap, i + 1, stat)

\* C17: after any sequence of addEquipment, equipToPlayer and
\* unequipFromPlayer, attack, defense and maxHealth equal the unequipped base
\* values plus the stats of the items currently equipped.
C17_StatsAreBasePlusEquipped ==
    /\ player.attack =
          NewPlayer.attack + EquippedSum(player.equipment, items, 1, "attack")
    /\ player.defense =
          NewPlayer.defense + EquippedSum(player.equipment, items, 1, "defense")
    /\ player.maxHealth =
          NewPlayer.maxHealth
            + EquippedSum(player.equipment, items, 1, "maxHealth") * Scale

-----------------------------------------------------------------------------
(* Combat: Player.takeDamage, Monster.takeDamage, Monster.attackTarget and *)
(* GameSystem.checkMonsterAttacks.  Damage amounts are in Scale units.     *)

\* the forEach over player.equipment inside Player.takeDamage
RECURSIVE ApplyItemDefense(_, _, _)
ApplyItemDefense(equipment, heap, actualDamage) ==
    IF equipment = <<>> THEN actualDamage
    ELSE LET item == heap[Head(equipment)]
             itemReduction == Min(item.defense * Scale, actualDamage \div 2)
         IN  ApplyItemDefense(Tail(equipment), heap,
                 IF item.isEquipped /\ item.defense # 0
                 THEN actualDamage - itemReduction
                 ELSE actualDamage)

\* a Player.takeDamage that forgets the final floor of 1
Player_takeDamage_NoFloor(p, heap, amount) ==
    LET damageReduction == Min(p.defense * Scale, (amount * 4) \div 5)
        actualDamage == Max(1 * Scale, amount - damageReduction)
    IN  [p EXCEPT !.health = @ - ApplyItemDefense(p.equipment, heap, actualDamage)]

\* Player.takeDamage(amount).  No skill of SkillSystem.ts has a name that
\* contains the marker the trailing skills.forEach looks for, so that loop
\* changes nothing.  The boolean it returns is health <= 0 afterwards.
Player_takeDamage(p, heap, amount) ==
    LET damageReduction == Min(p.defense * Scale, (amount * 4) \div 5)
        actualDamage == Max(1 * Scale, amount - damageReduction)
        afterItems == ApplyItemDefense(p.equipment, heap, actualDamage)
    IN  [p EXCEPT !.health = @ - Max(1 * Scale, afterItems)]

\* a Monster.takeDamage that mitigates up to 80% as Player.takeDamage does
Monster_takeDamage_EightyPercent(m, amount) ==
    LET damageReduction == Min(m.defense * Scale, (amount * 4) \div 5)
        actualDamage == Max(1 * Scale, amount - damageReduction)
    IN  [m EXCEPT !.health = @ - actualDamage]

\* Monster.takeDamage(amount)
Monster_takeDamage(m, amount) ==
    LET damageReduction == Min(m.defense * Scale, amount \div 2)
        actualDamage == Max(1 * Scale, amount - damageReduction)
    IN  [m EXCEPT !.health = @ - actualDamage]

\* MONSTER_TYPES: the templates for normal, elite and boss
MonsterType(isElite, isBoss) ==
    IF isBoss
    THEN [baseHealth |-> 1000, baseAttack |-> 50, baseDefense |-> 20,
          baseExperience |-> 200]
    ELSE IF isElite
    THEN [baseHealth |-> 200, baseAttack |-> 20, baseDefense |-> 8,
          baseExperience |-> 50]
    ELSE [baseHealth |-> 50, baseAttack |-> 5, baseDefense |-> 2,
          baseExperience |-> 10]

\* new Monster(x, y, level, isElite, isBoss).  levelMultiplier is
\* 1 + (level - 1) * 0.2 = (level + 4) / 5, so Math.floor(base * levelMultiplier
\* * typeMultiplier) is the integer quotient below.
Monster(x, y, level, isElite, isBoss) ==
    LET t == MonsterType(isElite, isBoss)
        typeMultiplier == (IF isElite THEN 2 ELSE 1) * (IF isBoss THEN 5 ELSE 1)
        Stat(base) == (base * (level + 4) * typeMultiplier) \div 5
    IN  [x |-> x, y |-> y, level |-> level, isElite |-> isElite, isBoss |-> isBoss,
         maxHealth |-> Stat(t.baseHealth) * Scale,
         health |-> Stat(t.baseHealth) * Scale,
         attack |-> Stat(t.baseAttack),
         defense |-> Stat(t.baseDefense),
         experienceReward |-> Stat(t.baseExperience),
         attackRange |-> 60,
         attackSpeed |-> IF isBoss THEN 2000 ELSE IF isElite THEN 1500 ELSE 1000,
         lastAttackTime |-> 0,
         aggroRange |-> IF isBoss THEN 400 ELSE IF isElite THEN 300 ELSE 200]

\* distance(a, b) <= range, for whole-number coordinates and range
WithinDistance(a, b, range) ==
    (a.x - b.x) * (a.x - b.x) + (a.y - b.y) * (a.y - b.y) <= range * range

\* Monster.attackTarget(target) at Date.now() = currentTime; crit is the
\* outcome of Math.random() < 0.1
Monster_attackTarget(m, p, heap, currentTime, crit) ==
    IF currentTime - m.lastAttackTime >= m.attackSpeed
    THEN LET m1 == [m EXCEPT !.lastAttackTime = currentTime]
             damage == IF m.isBoss /\ crit THEN m.attack * 2 ELSE m.attack
             damageDealt == Max(1 * Scale,
                                damage * Scale - (p.defense * Scale) \div 2)
         IN  IF WithinDistance(m, p, m.attackRange)
             THEN [monster |-> m1, player |-> Player_takeDamage(p, heap, damageDealt),
                   landed |-> TRUE]
             ELSE [monster |-> m1, player |-> p, landed |-> FALSE]
    ELSE [monster |-> m, player |-> p, landed |-> FALSE]

\* GameSystem.checkMonsterAttacks: the for-of loop over gameState.monsters,
\* from index i on
RECURSIVE GameSystem_checkMonsterAttacks(_, _, _, _)
GameSystem_checkMonsterAttacks(ms, i, p, heap) ==
    IF i > Len(ms) THEN p
    ELSE LET monster == ms[i]
             actualDamage == Max(1 * Scale,
                                 monster.attack * Scale - (p.defense * Scale) \div 2)
         IN  GameSystem_checkMonsterAttacks(ms, i + 1,
                 IF WithinDistance(p, monster, 60)
                 THEN Player_takeDamage(p, heap, actualDamage)
                 ELSE p,
                 heap)

\* how many monsters checkMonsterAttacks finds within 60 units
InRange(ms, p) == {i \in 1..Len(ms) : WithinDistance(p, ms[i], 60)}

MaxSteps == 2

MaxClock == 2

NowStart == 100000

ClockStep == 1000

\* amounts handed to takeDamage directly, in health units
DamageAmounts == {1, 10, 20, 1000}

CombatPool == Append(EquipmentPool, Item("c1", "ACCESSORY", 0, 4, 0, TRUE))

\* the player's equipment at the start of a fight: nothing; the Armor
\* instance equipped through the manager; a dropped armor added and toggled
\* on with equipItem; the Armor and the Accessory both equipped
EquipSetups ==
    LET none == [player |-> NewPlayer, items |-> CombatPool]
        armor == EquipmentManager_equipToPlayer(none.player, none.items, 3)
        added == Player_addEquipment(none.player, none.items, 4)
        toggled == [player |-> added.player,
                    items |-> Player_equipItem(added.player, added.items, "l1")]
        both == EquipmentManager_equipToPlayer(armor.player, armor.items, 5)
    IN  { [player |-> e.player, items |-> e.items] :
            e \in {none, [player |-> armor.player, items |-> armor.items], toggled,
                   [player |-> both.player, items |-> both.items]} }

MonsterLevels == {1, 6}

Kinds == { <<FALSE, FALSE>>, <<TRUE, FALSE>>, <<FALSE, TRUE>> }

\* positions relative to the player at (0, 0): 50 away, exactly 60 away, 100 away
MonsterSpots == { <<30, 40>>, <<60, 0>>, <<100, 0>> }

MonsterLists ==
    { <<Monster(s[1], s[2], l, k[1], k[2])>> :
        s \in MonsterSpots, l \in MonsterLevels, k \in Kinds }
    \cup
    { <<Monster(100, 0, 1, TRUE, FALSE), Monster(s[1], s[2], l, FALSE, FALSE)>> :
        s \in {<<30, 40>>, <<60, 0>>}, l \in MonsterLevels }
    \cup
    { <<Monster(30, 40, 1, FALSE, FALSE), Monster(0, 50, 6, FALSE, FALSE)>> }

PlayerTakeDamage(amount) ==
    /\ steps < MaxSteps
    /\ player' = Player_takeDamage(player, items, amount * Scale)
    /\ last' = [op |-> "Player.takeDamage", who |-> 0, amount |-> amount * Scale,
                crit |-> FALSE, healthBefore |-> player.health, hits |-> 1]
    /\ steps' = steps + 1
    /\ UNCHANGED <<tickVars, items, combatVars, mapVars, pureVars>>

MonsterTakeDamage(i, amount) ==
    /\ steps < MaxSteps
    /\ monsters' = [monsters EXCEPT ![i] = Monster_takeDamage(@, amount * Scale)]
    /\ last' = [op |-> "Monster.takeDamage", who |-> i, amount |-> amount * Scale,
                crit |-> FALSE, healthBefore |-> monsters[i].health, hits |-> 1]
    /\ steps' = steps + 1
    /\ UNCHANGED <<tickVars, playerVars, now, mapVars, pureVars>>

MonsterAttackTarget(i, crit) ==
    /\ steps < MaxSteps
    /\ LET r == Monster_attackTarget(monsters[i], player, items, now, crit)
       IN  /\ monsters' = [monsters EXCEPT ![i] = r.monster]
           /\ player' = r.player
           /\ last' = [op |-> "Monster.attackTarget", who |-> i,
                       amount |-> monsters[i].attack,
                       crit |-> monsters[i].isBoss /\ crit,
                       healthBefore |-> player.health,
                       hits |-> IF r.landed THEN 1 ELSE 0]
    /\ steps' = steps + 1
    /\ UNCHANGED <<tickVars, items, now, mapVars, pureVars>>

CheckMonsterAttacks ==
    /\ steps < MaxSteps
    /\ player' = GameSystem_checkMonsterAttacks(monsters, 1, player, items)
    /\ last' = [op |-> "GameSystem.checkMonsterAttacks", who |-> 0,
                amount |-> 0, crit |-> FALSE, healthBefore |-> player.health,
                hits |-> Cardinality(InRange(monsters, player))]
    /\ steps' = steps + 1
    /\ UNCHANGED <<tickVars, items, combatVars, mapVars, pureVars>>

AdvanceClock ==
    /\ now < NowStart + MaxClock * ClockStep
    /\ now' = now + ClockStep
    /\ UNCHANGED <<tickVars, playerVars, monsters, last, steps, mapVars, pureVars>>

InitCombat ==
    /\ \E e \in EquipSetups : player = e.player /\ items = e.items
    /\ monsters \in MonsterLists
    /\ now = NowStart
    /\ last = NoOp
    /\ steps = 0
    /\ IdleTick
    /\ IdleMap
    /\ IdlePure

NextCombat ==
    \/ \E a \in DamageAmounts : PlayerTakeDamage(a)
    \/ \E i \in DOMAIN monsters, a \in DamageAmounts : MonsterTakeDamage(i, a)
    \/ \E i \in DOMAIN monsters, crit \in BOOLEAN : MonsterAttackTarget(i, crit)
    \/ CheckMonsterAttacks
    \/ AdvanceClock

SpecCombat == InitCombat /\ [][NextCombat]_vars

\* C1: after any call of takeDamage on the player or on a monster (made
\* directly, by Monster.attackTarget or by GameSystem.checkMonsterAttacks),
\* health <= maxHealth holds and every call removed at least 1 health,
\* whatever the defense and the defense of the equipped items.
C1_TakeDamageFloorsAtOne ==
    /\ last.op \in {"Player.takeDamage", "Monster.attackTarget",
                    "GameSystem.checkMonsterAttacks"}
       => /\ player.health <= player.maxHealth
          /\ last.healthBefore - player.health >= last.hits * Scale
    /\ last.op = "Monster.takeDamage"
       => /\ monsters[last.who].health <= monsters[last.who].maxHealth
          /\ last.healthBefore - monsters[last.who].health >= 1 * Scale

\* C1 witness: a hit of 1 on a player whose own defense and two equipped
\* defense items all exceed it has been resolved
C1_Witness ==
    /\ last.op = "Player.takeDamage"
    /\ last.amount = 1 * Scale
    /\ Cardinality({r \in Held(player) : items[r].isEquipped /\ items[r].defense > 1}) = 2

\* C6: a non-critical hit of a monster with attack 10 on a player with
\* defense 5 and no equipped armor, through Monster.attackTarget or through
\* GameSystem.checkMonsterAttacks, lowers the player's health by exactly 5.
C6_MonsterHitRemovesFive ==
    (/\ last.op \in {"Monster.attackTarget", "GameSystem.checkMonsterAttacks"}
     /\ last.hits = 1
     /\ ~last.crit
     /\ player.defense = 5
     /\ \A r \in Held(player) : ~items[r].isEquipped
     /\ \E i \in InRange(monsters, player) :
           /\ monsters[i].attack = 10
           /\ last.who \in {0, i})
    => last.healthBefore - player.health = 5 * Scale

\* C11: Monster.takeDamage(amount) lowers health by exactly
\* max(1, amount - min(defense, amount * 0.5)): defense takes off at most
\* half of the amount; with defense 2, health 50 and amount 20 the damage is
\* at least 1, below 20, and the health left is 50 minus it.
C11_MonsterDamageMitigatedByHalfAtMost ==
    last.op = "Monster.takeDamage" =>
        LET m == monsters[last.who]
            half == last.amount \div 2
            mitigated == IF m.defense * Scale < half THEN m.defense * Scale
                         ELSE half
            expected == IF last.amount - mitigated < 1 * Scale THEN 1 * Scale
                        ELSE last.amount - mitigated
            removed == last.healthBefore - m.health
        IN  /\ removed = expected
            /\ 2 * removed >= last.amount
            /\ (m.defense = 2 /\ last.healthBefore = 50 * Scale
                              /\ last.amount = 20 * Scale)
                 => /\ removed >= 1 * Scale
                    /\ removed < 20 * Scale
                    /\ m.health = 50 * Scale - removed

\* a monster with defense 2 and health 50 has taken a hit of 20
C11_Witness ==
    /\ last.op = "Monster.takeDamage"
    /\ last.amount = 20 * Scale
    /\ last.healthBefore = 50 * Scale
    /\ monsters[last.who].defense = 2
    /\ monsters[last.who].health = 32 * Scale

-----------------------------------------------------------------------------
(* Progression: Player.gainExperience and Player.levelUp.                  *)

MaxLevel == 3

LoopDraws == 5

\* what the three randomInt calls of one levelUp return (healthGain in 20..40,
\* attackGain in 5..10, defenseGain in 3..6): the two ends of each range
LevelUpGains == { <<20, 5, 3>>, <<40, 10, 6>> }

ExperienceAmounts == {0, 5, 40, 250, 1000}

\* a levelUp that doubles the threshold instead of growing it by half
Player_levelUp_Doubling(p, gain) ==
    [p EXCEPT !.level = @ + 1,
              !.experience = @ - p.experienceToNextLevel,
              !.experienceToNextLevel = @ * 2,
              !.maxHealth = @ + gain[1] * Scale,
              !.health = p.maxHealth + gain[1] * Scale,
              !.attack = @ + gain[2],
              !.defense = @ + gain[3],
              !.skillPoints = @ + 1]

\* a levelUp that leaves the experience as it was
Player_levelUp_KeepExperience(p, gain) ==
    [Player_levelUp_Doubling(p, gain) EXCEPT
        !.experience = p.experience,
        !.experienceToNextLevel = p.experienceToNextLevel]

\* Player.levelUp(); gain is <<healthGain, attackGain, defenseGain>>
Player_levelUp(p, gain) ==
    [p EXCEPT !.level = @ + 1,
              !.experience = @ - p.experienceToNextLevel,
              !.experienceToNextLevel = (@ * 3) \div 2,
              !.maxHealth = @ + gain[1] * Scale,
              !.health = p.maxHealth + gain[1] * Scale,
              !.attack = @ + gain[2],
              !.defense = @ + gain[3],
              !.skillPoints = @ + 1]

\* the while loop of gainExperience; the i-th levelUp of the call takes the
\* i-th draw
RECURSIVE LevelUpLoop(_, _, _)
LevelUpLoop(p, draws, i) ==
    IF p.experience >= p.experienceToNextLevel
    THEN LevelUpLoop(Player_levelUp(p, draws[((i - 1) % Len(draws)) + 1]),
                     draws, i + 1)
    ELSE p

\* a gainExperience that tests the threshold once (if) instead of looping
Player_gainExperience_Once(p, amount, draws) ==
    LET p1 == [p EXCEPT !.experience = @ + amount]
    IN  IF p1.experience >= p1.experienceToNextLevel
        THEN Player_levelUp(p1, draws[1])
        ELSE p1

\* Player.gainExperience(amount)
Player_gainExperience(p, amount, draws) ==
    LevelUpLoop([p EXCEPT !.experience = @ + amount], draws, 1)

GainExperience(amount, draws) ==
    /\ player.level < MaxLevel
    /\ player' = Player_gainExperience(player, amount, draws)
    /\ last' = [op |-> "Player.gainExperience", amount |-> amount,
                before |-> [level |-> player.level,
                            experience |-> player.experience,
                            experienceToNextLevel |-> player.experienceToNextLevel,
                            skillPoints |-> player.skillPoints]]
    /\ UNCHANGED <<tickVars, items, combatVars, steps, mapVars, pureVars>>

\* a hit between two gains, so that a level-up has health to restore
Wound ==
    /\ steps < MaxSteps
    /\ player.health > 0
    /\ player' = Player_takeDamage(player, items, 40 * Scale)
    /\ last' = [op |-> "Player.takeDamage"]
    /\ steps' = steps + 1
    /\ UNCHANGED <<tickVars, items, combatVars, mapVars, pureVars>>

InitProgress ==
    /\ player = NewPlayer
    /\ items = EquipmentPool
    /\ monsters = <<>>
    /\ now = 0
    /\ last = NoOp
    /\ steps = 0
    /\ IdleTick
    /\ IdleMap
    /\ IdlePure

NextProgress ==
    \/ \E amount \in ExperienceAmounts, draws \in [1..LoopDraws -> LevelUpGains] :
          GainExperience(amount, draws)
    \/ Wound

SpecProgress == InitProgress /\ [][NextProgress]_vars

\* C2: experience < experienceToNextLevel holds right after every
\* gainExperience(amount), also for gains that cross several thresholds.
C2_ExperienceBelowThreshold ==
    last.op = "Player.gainExperience"
    => player.experience < player.experienceToNextLevel

\* C2 witness: one gain crossed at least three thresholds
C2_Witness ==
    /\ last.op = "Player.gainExperience"
    /\ player.level >= last.before.level + 3

\* the i-th threshold after t0 when each is floor(1.5 * previous)
RECURSIVE ThresholdAfter(_, _)
ThresholdAfter(t0, i) ==
    IF i = 0 THEN t0 ELSE (ThresholdAfter(t0, i - 1) * 3) \div 2

\* the sum of the first k thresholds from t0 on
RECURSIVE ThresholdsConsumed(_, _)
ThresholdsConsumed(t0, k) ==
    IF k = 0 THEN 0
    ELSE ThresholdsConsumed(t0, k - 1) + ThresholdAfter(t0, k - 1)

\* C10: a gainExperience(amount) that reaches the threshold levels up once
\* per threshold crossed: level and skillPoints rise by that count k, the
\* threshold is grown k times to floor(threshold * 1.5), the experience left
\* plus the k thresholds consumed is the old experience plus amount, and
\* health = maxHealth on return; 95/100 gaining 250 gives level + 2,
\* experience 95, threshold 225.
C10_LevelUpOncePerThreshold ==
    (/\ last.op = "Player.gainExperience"
     /\ last.before.experience + last.amount >= last.before.experienceToNextLevel)
    => LET b == last.before
           total == b.experience + last.amount
           k == player.level - b.level
       IN  /\ k >= 1
           /\ \A j \in 0..(k - 1) :
                 total - ThresholdsConsumed(b.experienceToNextLevel, j)
                    >= ThresholdAfter(b.experienceToNextLevel, j)
           /\ player.experience < player.experienceToNextLevel
           /\ player.skillPoints = b.skillPoints + k
           /\ player.experienceToNextLevel = ThresholdAfter(b.experienceToNextLevel, k)
           /\ player.experience + ThresholdsConsumed(b.experienceToNextLevel, k) = total
           /\ player.health = player.maxHealth
           /\ (b.experience = 95 /\ b.experienceToNextLevel = 100 /\ last.amount = 250)
              => /\ k = 2
                 /\ player.experience = 95
                 /\ player.experienceToNextLevel = 225

\* C10 witness: the gain of 250 at experience 95, threshold 100, taken by a
\* wounded player
C10_Witness ==
    /\ last.op = "Player.gainExperience"
    /\ last.before.experience = 95
    /\ last.before.experienceToNextLevel = 100
    /\ last.amount = 250
    /\ steps > 0

-----------------------------------------------------------------------------
(* The map: Chunk and MapGenerator.                                        *)
(*                                                                         *)
(* Math.random is a generator with hidden state: mathRandom is that state, *)
(* unknown at the start, and every call returns the next of RandomPeriod   *)
(* values k / RandomPeriod.  simpleRandom(s) = frac(sin(s) * 10000) cannot *)
(* be computed here; it is replaced by a fixed function of s whose values  *)
(* are h / HashResolution, h in 0..HashResolution-1.  What the model keeps *)
(* of it is what the code relies on: the value depends on s and on nothing *)
(* else.  HashResolution = 10 divides every range Chunk.generate scales a  *)
(* draw by, so positions and sizes are whole numbers.  An obstacle's id    *)
(* (generateId) is not modelled; an obstacle is identified by its place in *)
(* its chunk's list.                                                       *)

CHUNK_SIZE == 500

RandomPeriod == 4

HashResolution == 2 * 5

\* the value of Math.random() * 1000 in generator state r (floored)
MathRandomTimes1000(r) == (1000 * (r % RandomPeriod)) \div RandomPeriod

\* simpleRandom(seed), as h with value h / HashResolution
simpleRandom(s) ==
    LET t == s % 9973
    IN  ((t * t) \div 7 + 3 * t + (t \div 100)) % HashResolution

\* rng() as Chunk.generate is written: the draw is hashed together with a
\* fresh Math.random()
rng(chunkSeed, r) == simpleRandom(chunkSeed + MathRandomTimes1000(r))

\* new Chunk(x, y)
Chunk(x, y) == [x |-> x, y |-> y, obstacles |-> <<>>, generated |-> FALSE]

\* one iteration of the for loop of Chunk.generate: the obstacle built from
\* the draws r, r+1, ... and the number of draws it took
ObstacleAt(chunk, chunkSeed, r) ==
    LET Draw(n) == rng(chunkSeed, r + n)
        x == chunk.x * CHUNK_SIZE + (Draw(0) * CHUNK_SIZE) \div HashResolution
        y == chunk.y * CHUNK_SIZE + (Draw(1) * CHUNK_SIZE) \div HashResolution
        randomIndex == (Draw(2) * 3) \div HashResolution
        Obstacle(type, width, height, health) ==
            [obstacleType |-> type, x |-> x, y |-> y, width |-> width,
             height |-> height, isSolid |-> TRUE, health |-> health * Scale,
             maxHealth |-> health * Scale, level |-> 1]
    IN  IF randomIndex = 0
        THEN [obstacle |-> Obstacle("tree", 40 + (Draw(3) * 20) \div HashResolution,
                                    60 + (Draw(4) * 40) \div HashResolution, 100),
              draws |-> 5]
        ELSE IF randomIndex = 1
        THEN [obstacle |-> Obstacle("rock", 30 + (Draw(3) * 30) \div HashResolution,
                                    30 + (Draw(4) * 30) \div HashResolution, 200),
              draws |-> 5]
        ELSE [obstacle |-> Obstacle("wall", 50 + (Draw(3) * 100) \div HashResolution,
                                    20, 500),
              draws |-> 4]

\* the for loop of Chunk.generate from iteration i on: obstacles is
\* this.obstacles so far, each iteration pushes one obstacle
RECURSIVE GenerateObstacles(_, _, _, _, _, _)
GenerateObstacles(chunk, chunkSeed, i, obstacleCount, obstacles, r) ==
    IF i >= obstacleCount THEN [obstacles |-> obstacles, random |-> r]
    ELSE LET Push(o) ==
                 GenerateObstacles(chunk, chunkSeed, i + 1, obstacleCount,
                                   Append(obstacles, o.obstacle), r + o.draws)
         IN  Push(ObstacleAt(chunk, chunkSeed, r))

\* a Chunk.generate without the early return on generated
Chunk_generate_NoGuard(chunk, seed, r) ==
    LET chunkSeed == seed + chunk.x * 10000 + chunk.y * 100
        obstacleCount == (rng(chunkSeed, r) * 15) \div HashResolution + 5
        Done(g) == [chunk |-> [chunk EXCEPT !.obstacles = g.obstacles,
                                            !.generated = TRUE],
                    random |-> g.random % RandomPeriod]
    IN  Done(GenerateObstacles(chunk, chunkSeed, 0, obstacleCount,
                               chunk.obstacles, r + 1))

\* Chunk.generate(seed) with Math.random in state r: the chunk afterwards
\* and the generator state afterwards
Chunk_generate(chunk, seed, r) ==
    IF chunk.generated THEN [chunk |-> chunk, random |-> r]
    ELSE LET chunkSeed == seed + chunk.x * 10000 + chunk.y * 100
             obstacleCount == (rng(chunkSeed, r) * 15) \div HashResolution + 5
             Done(g) == [chunk |-> [chunk EXCEPT !.obstacles = g.obstacles,
                                                 !.generated = TRUE],
                         random |-> g.random % RandomPeriod]
         IN  Done(GenerateObstacles(chunk, chunkSeed, 0, obstacleCount,
                                    chunk.obstacles, r + 1))

\* what the spec compares of two obstacle lists: count, positions and types
Layout(obstacles) ==
    [i \in 1..Len(obstacles) |->
        <<obstacles[i].x, obstacles[i].y, obstacles[i].obstacleType>>]

\* a getChunkCoordinates that truncates toward zero instead of flooring
getChunkCoordinates_Truncating(worldX, worldY) ==
    <<IF worldX < 0 THEN 0 - ((0 - worldX) \div CHUNK_SIZE) ELSE worldX \div CHUNK_SIZE,
      IF worldY < 0 THEN 0 - ((0 - worldY) \div CHUNK_SIZE) ELSE worldY \div CHUNK_SIZE>>

\* MapGenerator.getChunkCoordinates(worldX, worldY)
getChunkCoordinates(worldX, worldY) ==
    <<FloorDiv(worldX, CHUNK_SIZE), FloorDiv(worldY, CHUNK_SIZE)>>

\* new MapGenerator(seed, activeChunkRadius)
MapGenerator(seed, activeChunkRadius) ==
    [seed |-> seed, activeChunkRadius |-> activeChunkRadius,
     chunks |-> [k \in {} |-> Chunk(0, 0)]]

\* MapGenerator.getOrCreateChunk(x, y): the store and the generator state
\* afterwards (the key of a chunk is the pair <<x, y>>)
getOrCreateChunk(store, seed, x, y, r) ==
    IF <<x, y>> \in DOMAIN store THEN [chunks |-> store, random |-> r]
    ELSE LET Set(g) == [chunks |-> (<<x, y>> :> g.chunk) @@ store,
                        random |-> g.random]
         IN  Set(Chunk_generate(Chunk(x, y), seed, r))

\* the pairs visited by "for x from x0 to x1: for y from y0 to y1", in order
LoopOrder(x0, x1, y0, y1) ==
    LET ny == y1 - y0 + 1
    IN  IF x1 < x0 \/ y1 < y0 THEN <<>>
        ELSE [i \in 1..((x1 - x0 + 1) * ny) |->
                <<x0 + ((i - 1) \div ny), y0 + ((i - 1) % ny)>>]

\* getOrCreateChunk for every pair of a loop, from the i-th on
RECURSIVE CreateAll(_, _, _, _, _)
CreateAll(store, seed, order, i, r) ==
    IF i > Len(order) THEN [chunks |-> store, random |-> r]
    ELSE IF order[i] \in DOMAIN store
         THEN \* getOrCreateChunk finds the chunk and changes nothing
              CreateAll(store, seed, order, i + 1, r)
         ELSE LET Rest(g) == CreateAll(g.chunks, seed, order, i + 1, g.random)
              IN  Rest(getOrCreateChunk(store, seed, order[i][1], order[i][2], r))

\* the keys a cleanup that requires both axes to be too far would delete
DistantKeys_BothAxes(store, maxDistance, centerX, centerY) ==
    {k \in DOMAIN store : /\ Abs(store[k].x - centerX) > maxDistance
                          /\ Abs(store[k].y - centerY) > maxDistance}

\* the keys MapGenerator.cleanupDistantChunks deletes
DistantKeys(store, maxDistance, centerX, centerY) ==
    {k \in DOMAIN store : \/ Abs(store[k].x - centerX) > maxDistance
                          \/ Abs(store[k].y - centerY) > maxDistance}

\* MapGenerator.cleanupDistantChunks(centerX, centerY)
cleanupDistantChunks(g, centerX, centerY) ==
    LET keysToRemove == DistantKeys(g.chunks, g.activeChunkRadius + 1,
                                    centerX, centerY)
    IN  [k \in DOMAIN g.chunks \ keysToRemove |-> g.chunks[k]]

\* MapGenerator.updateActiveChunks(centerX, centerY)
updateActiveChunks(g, centerX, centerY, r) ==
    LET centerChunk == getChunkCoordinates(centerX, centerY)
        R == g.activeChunkRadius
        Cleanup(made) ==
            [map |-> [g EXCEPT !.chunks =
                         cleanupDistantChunks([g EXCEPT !.chunks = made.chunks],
                                              centerChunk[1], centerChunk[2])],
             random |-> made.random]
    IN  Cleanup(CreateAll(g.chunks, g.seed,
                          LoopOrder(centerChunk[1] - R, centerChunk[1] + R,
                                    centerChunk[2] - R, centerChunk[2] + R), 1, r))

\* the filter of getObstaclesInArea over the chunks of a loop, in order
RECURSIVE ObstaclesOf(_, _, _, _)
ObstaclesOf(store, order, i, area) ==
    IF i > Len(order) THEN <<>>
    ELSE LET InArea(obs) == /\ obs.x < area.maxX /\ obs.x + obs.width > area.minX
                            /\ obs.y < area.maxY /\ obs.y + obs.height > area.minY
         IN  SelectSeq(store[order[i]].obstacles, InArea)
               \o ObstaclesOf(store, order, i + 1, area)

\* a getObstaclesInArea that reads the resident chunks only and creates none
getObstaclesInArea_ResidentOnly(g, area, r) ==
    LET startChunk == getChunkCoordinates(area.minX, area.minY)
        endChunk == getChunkCoordinates(area.maxX, area.maxY)
        order == LoopOrder(startChunk[1], endChunk[1], startChunk[2], endChunk[2])
        Resident(key) == key \in DOMAIN g.chunks
    IN  [map |-> g, random |-> r,
         obstacles |-> ObstaclesOf(g.chunks, SelectSeq(order, Resident), 1, area)]

\* MapGenerator.getObstaclesInArea(minX, minY, maxX, maxY).  Each chunk is
\* created when the loop reaches it and read at once, which gives the same
\* store and the same list as creating them all first.
getObstaclesInArea(g, area, r) ==
    LET startChunk == getChunkCoordinates(area.minX, area.minY)
        endChunk == getChunkCoordinates(area.maxX, area.maxY)
        order == LoopOrder(startChunk[1], endChunk[1], startChunk[2], endChunk[2])
        Collect(made) ==
            [map |-> [g EXCEPT !.chunks = made.chunks],
             random |-> made.random,
             obstacles |-> ObstaclesOf(made.chunks, order, 1, area)]
    IN  Collect(CreateAll(g.chunks, g.seed, order, 1, r))

-----------------------------------------------------------------------------
(* Specification SpecChunk: Chunk objects used on their own.  A handle     *)
(* names a Chunk object; generate may be called on it any number of times. *)

ChunkHandles == {1, 2}

ChunkCoords == { <<0, 0>>, <<1, 0>>, <<0 - 1, 2>> }

MapSeeds == {1, 12345}

IdlePlayer ==
    /\ player = NewPlayer /\ items = <<>> /\ monsters = <<>> /\ now = 0

\* h = new Chunk(x, y)
ChunkNew(h, x, y) ==
    /\ h \notin DOMAIN chunkObj
    /\ chunkObj' = (h :> Chunk(x, y)) @@ chunkObj
    /\ last' = [op |-> "new Chunk", h |-> h]
    /\ UNCHANGED <<tickVars, playerVars, combatVars, steps, mapGen, mathRandom, evicted,
                   pureVars>>

\* h.generate(seed)
ChunkGenerate(h, seed) ==
    /\ h \in DOMAIN chunkObj
    /\ \E g \in {Chunk_generate(chunkObj[h], seed, mathRandom)} :
           /\ chunkObj' = [chunkObj EXCEPT ![h] = g.chunk]
           /\ mathRandom' = g.random
    /\ last' = [op |-> "Chunk.generate", h |-> h, before |-> chunkObj[h]]
    /\ UNCHANGED <<tickVars, playerVars, combatVars, steps, mapGen, evicted, pureVars>>

InitChunk ==
    /\ IdlePlayer
    /\ last = NoOp
    /\ steps = 0
    /\ IdleTick
    /\ mapGen = <<>>
    /\ mathRandom \in 0..(RandomPeriod - 1)
    /\ evicted = <<>>
    /\ chunkObj = <<>>
    /\ IdlePure

NextChunk ==
    \/ \E h \in ChunkHandles, c \in ChunkCoords : ChunkNew(h, c[1], c[2])
    \/ \E h \in ChunkHandles, seed \in MapSeeds : ChunkGenerate(h, seed)

SpecChunk == InitChunk /\ [][NextChunk]_vars

\* C9: a Chunk.generate(seed) on a chunk that is already generated leaves
\* the chunk as it was: the same obstacle list, entry by entry, and the
\* generated flag still set.
C9_SecondGenerateIsNoOp ==
    (last.op = "Chunk.generate" /\ last.before.generated)
        => /\ chunkObj[last.h].obstacles = last.before.obstacles
           /\ chunkObj[last.h].generated

C9_Witness ==
    /\ last.op = "Chunk.generate"
    /\ last.before.generated
    /\ Len(last.before.obstacles) >= 5
    /\ chunkObj[last.h].generated

-----------------------------------------------------------------------------
(* Specification SpecObstacle: the obstacles of one generated chunk take   *)
(* damage through the takeDamage closure Chunk.generate gives them.        *)

\* obstacle.takeDamage(amount), amount in Scale units
Obstacle_takeDamage(obstacle, amount) ==
    [obstacle EXCEPT !.health = @ - amount]

\* amounts handed to obstacle.takeDamage, in Scale units: 0.5, 1, 30, 150
ObstacleDamageAmounts == {Scale \div 2, 1 * Scale, 30 * Scale, 150 * Scale}

\* chunk.getObstacles()[i].takeDamage(amount)
ObstacleTakeDamage(i, amount) ==
    /\ steps < MaxSteps
    /\ i \in 1..Len(chunkObj[1].obstacles)
    /\ chunkObj' = [chunkObj EXCEPT ![1].obstacles[i] =
                       Obstacle_takeDamage(@, amount)]
    /\ last' = [op |-> "obstacle.takeDamage", i |-> i, amount |-> amount,
                healthBefore |-> chunkObj[1].obstacles[i].health]
    /\ steps' = steps + 1
    /\ UNCHANGED <<tickVars, playerVars, combatVars, mapGen, mathRandom, evicted, pureVars>>

InitObstacle ==
    /\ IdlePlayer
    /\ last = NoOp
    /\ steps = 0
    /\ IdleTick
    /\ mapGen = <<>>
    /\ evicted = <<>>
    /\ \E c \in ChunkCoords, seed \in MapSeeds, r \in 0..(RandomPeriod - 1) :
          \E g \in {Chunk_generate(Chunk(c[1], c[2]), seed, r)} :
              /\ chunkObj = (1 :> g.chunk)
              /\ mathRandom = g.random
    /\ IdlePure

NextObstacle ==
    \E i \in 1..20, amount \in ObstacleDamageAmounts : ObstacleTakeDamage(i, amount)

SpecObstacle == InitObstacle /\ [][NextObstacle]_vars

\* C13: after any takeDamage(amount) on an obstacle made by Chunk.generate,
\* health <= maxHealth holds and the call removed at least 1 health.
C13_ObstacleDamageFloorsAtOne ==
    last.op = "obstacle.takeDamage" =>
        LET obstacle == chunkObj[1].obstacles[last.i]
        IN  /\ obstacle.health <= obstacle.maxHealth
            /\ last.healthBefore - obstacle.health >= 1 * Scale

-----------------------------------------------------------------------------
(* Specification SpecMap: one MapGenerator driven by updateActiveChunks    *)
(* and getObstaclesInArea.  evicted remembers, for every chunk that        *)
(* cleanupDistantChunks deleted, the layout it had when it was deleted.    *)

MaxMapSteps == 3

ActiveChunkRadius == 1

\* world positions of the center: chunks (0,0), (1,0), (-2,-1)
MapCenters == { <<250, 250>>, <<750, 250>>, <<0 - 700, 0 - 100>> }

\* query rectangles: one across the corner of chunks (0,0)..(1,1), one far
\* to the right in chunks (5,0)..(6,0)
MapAreas ==
    { [minX |-> 400, minY |-> 400, maxX |-> 600, maxY |-> 600],
      [minX |-> 2900, minY |-> 100, maxX |-> 3100, maxY |-> 200] }

\* mapGenerator.updateActiveChunks(centerX, centerY)
UpdateActiveChunks(centerX, centerY) ==
    /\ steps < MaxMapSteps
    /\ \E u \in {updateActiveChunks(mapGen, centerX, centerY, mathRandom)} :
       LET removed == (DOMAIN mapGen.chunks) \ (DOMAIN u.map.chunks)
       IN  /\ mapGen' = u.map
           /\ mathRandom' = u.random
           /\ evicted' = [k \in (DOMAIN evicted) \cup removed |->
                             IF k \in removed
                             THEN Layout(mapGen.chunks[k].obstacles)
                             ELSE evicted[k]]
           /\ last' = [op |-> "updateActiveChunks",
                       at |-> <<centerX, centerY>>,
                       center |-> getChunkCoordinates(centerX, centerY),
                       removed |-> removed,
                       byQuery |-> IF last.op = "getObstaclesInArea"
                                   THEN last.created ELSE {}]
    /\ steps' = steps + 1
    /\ UNCHANGED <<tickVars, playerVars, combatVars, chunkObj, pureVars>>

\* mapGenerator.getObstaclesInArea(minX, minY, maxX, maxY)
GetObstaclesInArea(area) ==
    /\ steps < MaxMapSteps
    /\ \E q \in {getObstaclesInArea(mapGen, area, mathRandom)} :
           /\ mapGen' = q.map
           /\ mathRandom' = q.random
           /\ last' = [op |-> "getObstaclesInArea",
                       area |-> area,
                       obstacles |-> q.obstacles,
                       created |-> (DOMAIN q.map.chunks) \ (DOMAIN mapGen.chunks),
                       found |-> Len(q.obstacles)]
    /\ steps' = steps + 1
    /\ UNCHANGED <<tickVars, playerVars, combatVars, evicted, chunkObj, pureVars>>

InitMap ==
    /\ IdlePlayer
    /\ last = NoOp
    /\ steps = 0
    /\ IdleTick
    /\ \E seed \in MapSeeds : mapGen = MapGenerator(seed, ActiveChunkRadius)
    /\ mathRandom \in 0..(RandomPeriod - 1)
    /\ evicted = <<>>
    /\ chunkObj = <<>>
    /\ IdlePure

NextMap ==
    \/ \E c \in MapCenters : UpdateActiveChunks(c[1], c[2])
    \/ \E area \in MapAreas : GetObstaclesInArea(area)

SpecMap == InitMap /\ [][NextMap]_vars

\* C3: generation depends on (seed, chunkX, chunkY) alone, so a chunk that
\* was evicted and is resident again has the layout (count, positions,
\* types) it had when it was evicted.
C3_RecreatedChunkHasSameObstacles ==
    \A k \in (DOMAIN mapGen.chunks) \cap (DOMAIN evicted) :
        Layout(mapGen.chunks[k].obstacles) = evicted[k]

\* C7: after updateActiveChunks returns, every resident chunk is within
\* radius + 1 of the center chunk on both axes and the store holds at most
\* (2 * (radius + 1) + 1)^2 chunks, whatever was resident before the call.
C7_ResidentChunksNearCenter ==
    last.op = "updateActiveChunks" =>
        LET reach == mapGen.activeChunkRadius + 1
        IN  /\ \A k \in DOMAIN mapGen.chunks :
                  /\ Abs(mapGen.chunks[k].x - last.center[1]) <= reach
                  /\ Abs(mapGen.chunks[k].y - last.center[2]) <= reach
            /\ Cardinality(DOMAIN mapGen.chunks)
                  <= (2 * reach + 1) * (2 * reach + 1)

\* an update that deleted a chunk which a getObstaclesInArea had created
C7_Witness ==
    /\ last.op = "updateActiveChunks"
    /\ last.removed \cap last.byQuery # {}
    /\ DOMAIN mapGen.chunks # {}

\* C31: after updateActiveChunks(cx, cy) returns, every chunk within
\* activeChunkRadius of the chunk (floor(cx / 500), floor(cy / 500)) on both
\* axes is in the store, under its own coordinates, with generated = true.
C31_ActiveChunksResident ==
    last.op = "updateActiveChunks" =>
        LET cx == FloorDiv(last.at[1], CHUNK_SIZE)
            cy == FloorDiv(last.at[2], CHUNK_SIZE)
            r == mapGen.activeChunkRadius
        IN  \A x \in (cx - r)..(cx + r), y \in (cy - r)..(cy + r) :
                /\ <<x, y>> \in DOMAIN mapGen.chunks
                /\ mapGen.chunks[<<x, y>>].generated
                /\ mapGen.chunks[<<x, y>>].x = x
                /\ mapGen.chunks[<<x, y>>].y = y

\* an update around a center with negative coordinates, after one around a
\* center with positive coordinates
C31_Witness ==
    /\ last.op = "updateActiveChunks"
    /\ last.at[1] < 0 /\ last.at[2] < 0
    /\ last.removed # {}
    /\ Cardinality(DOMAIN mapGen.chunks) >= 9

\* the obstacles of the store that a query of area has to return: chunk key
\* and index, for the chunks from floor(min / 500) to floor(max / 500)
ExpectedInArea(store, area) ==
    {ki \in UNION {{<<k, i>> : i \in 1..Len(store[k].obstacles)} :
                     k \in {k \in DOMAIN store :
                              /\ k[1] \in FloorDiv(area.minX, CHUNK_SIZE)
                                            ..FloorDiv(area.maxX, CHUNK_SIZE)
                              /\ k[2] \in FloorDiv(area.minY, CHUNK_SIZE)
                                            ..FloorDiv(area.maxY, CHUNK_SIZE)}} :
        LET obs == store[ki[1]].obstacles[ki[2]]
        IN  /\ obs.x < area.maxX /\ obs.x + obs.width > area.minX
            /\ obs.y < area.maxY /\ obs.y + obs.height > area.minY}

\* C32: getObstaclesInArea returns exactly the obstacles of the chunks
\* overlapping the rectangle whose box intersects it, each once; every chunk
\* of that range is in the store afterwards, generated, with its obstacles,
\* the ones the query had to create included.
C32_ObstaclesInAreaExact ==
    last.op = "getObstaclesInArea" =>
        LET area == last.area
            expected == ExpectedInArea(mapGen.chunks, area)
            Obs(ki) == mapGen.chunks[ki[1]].obstacles[ki[2]]
        IN  /\ \A x \in FloorDiv(area.minX, CHUNK_SIZE)..FloorDiv(area.maxX, CHUNK_SIZE),
                  y \in FloorDiv(area.minY, CHUNK_SIZE)..FloorDiv(area.maxY, CHUNK_SIZE) :
                   /\ <<x, y>> \in DOMAIN mapGen.chunks
                   /\ mapGen.chunks[<<x, y>>].generated
                   /\ Len(mapGen.chunks[<<x, y>>].obstacles) >= 5
            /\ Len(last.obstacles) = Cardinality(expected)
            /\ \A j \in 1..Len(last.obstacles) :
                   \E ki \in expected : Obs(ki) = last.obstacles[j]
            /\ \A ki \in expected :
                   Cardinality({j \in 1..Len(last.obstacles) : last.obstacles[j] = Obs(ki)})
                     = Cardinality({kj \in expected : Obs(kj) = Obs(ki)})

\* a query that created chunks and returned some of their obstacles, not all
C32_Witness ==
    /\ last.op = "getObstaclesInArea"
    /\ last.created # {}
    /\ Len(last.obstacles) > 0
    /\ \E k \in last.created :
          \E i \in 1..Len(mapGen.chunks[k].obstacles) :
             <<k, i>> \notin ExpectedInArea(mapGen.chunks, last.area)
    /\ \E k \in last.created :
          \E i \in 1..Len(mapGen.chunks[k].obstacles) :
             <<k, i>> \in ExpectedInArea(mapGen.chunks, last.area)

-----------------------------------------------------------------------------
(* Specification SpecCollide: the pure collision utilities of gameUtils,   *)
(* applied to inputs drawn at the start.                                   *)

MaxObstacles == 2

\* checkCollision(a, b)
checkCollision(a, b) ==
    /\ a.x < b.x + b.width
    /\ a.x + a.width > b.x
    /\ a.y < b.y + b.height
    /\ a.y + a.height > b.y

\* the loop of a willCollide that skips no obstacle
RECURSIVE willCollide_AnyObstacle(_, _, _, _)
willCollide_AnyObstacle(entity, dx, dy, obstacles) ==
    LET newX == entity.x + dx
        newY == entity.y + dy
    IN  IF obstacles = <<>> THEN FALSE
        ELSE LET obstacle == Head(obstacles)
             IN  IF /\ newX < obstacle.x + obstacle.width
                    /\ newX + entity.width > obstacle.x
                    /\ newY < obstacle.y + obstacle.height
                    /\ newY + entity.height > obstacle.y
                 THEN TRUE
                 ELSE willCollide_AnyObstacle(entity, dx, dy, Tail(obstacles))

\* willCollide(entity, dx, dy, obstacles): the for loop, obstacle by obstacle
RECURSIVE willCollide(_, _, _, _)
willCollide(entity, dx, dy, obstacles) ==
    LET newX == entity.x + dx
        newY == entity.y + dy
    IN  IF obstacles = <<>> THEN FALSE
        ELSE LET obstacle == Head(obstacles)
             IN  IF ~obstacle.isSolid
                 THEN willCollide(entity, dx, dy, Tail(obstacles))
                 ELSE IF /\ newX < obstacle.x + obstacle.width
                         /\ newX + entity.width > obstacle.x
                         /\ newY < obstacle.y + obstacle.height
                         /\ newY + entity.height > obstacle.y
                 THEN TRUE
                 ELSE willCollide(entity, dx, dy, Tail(obstacles))

Box(x, y, width, height, isSolid) ==
    [x |-> x, y |-> y, width |-> width, height |-> height, isSolid |-> isSolid]

EntityBoxes == { Box(0, 0, 10, 10, TRUE), Box(5, 0 - 5, 20, 10, TRUE) }

Displacements == { <<0, 0>>, <<10, 0>>, <<0 - 10, 5>>, <<9, 0 - 9>> }

ObstacleBoxes ==
    { Box(x, 0, 10, 10, solid) : x \in {0 - 10, 20}, solid \in BOOLEAN }
      \cup { Box(15, 5, 10, 10, TRUE), Box(0, 0 - 30, 40, 20, FALSE) }

ObstacleLists ==
    UNION { [1..n -> ObstacleBoxes] : n \in 0..MaxObstacles }

\* result = willCollide(entity, dx, dy, obstacles)
WillCollide ==
    /\ wc.op = "input"
    /\ wc' = [op |-> "willCollide", entity |-> wc.entity, dx |-> wc.dx,
              dy |-> wc.dy, obstacles |-> wc.obstacles,
              result |-> willCollide(wc.entity, wc.dx, wc.dy, wc.obstacles)]
    /\ UNCHANGED <<tickVars, playerVars, combatVars, last, steps, mapVars, loot>>

InitCollide ==
    /\ IdlePlayer
    /\ last = NoOp
    /\ steps = 0
    /\ IdleTick
    /\ IdleMap
    /\ loot = NoOp
    /\ \E entity \in EntityBoxes, d \in Displacements, obstacles \in ObstacleLists :
          wc = [op |-> "input", entity |-> entity, dx |-> d[1], dy |-> d[2],
                obstacles |-> obstacles]

NextCollide == WillCollide

SpecCollide == InitCollide /\ [][NextCollide]_vars

\* C8: willCollide is true exactly when the entity's box moved by (dx, dy)
\* overlaps, by the test of checkCollision, the box of some obstacle with
\* isSolid = true.
C8_WillCollideIffSolidOverlap ==
    wc.op = "willCollide" =>
        LET moved == [wc.entity EXCEPT !.x = @ + wc.dx, !.y = @ + wc.dy]
        IN  wc.result <=>
              \E i \in 1..Len(wc.obstacles) :
                  /\ wc.obstacles[i].isSolid
                  /\ checkCollision(moved, wc.obstacles[i])

\* a call that returned false over a list whose only overlapping obstacle
\* is not solid
C8_Witness ==
    /\ wc.op = "willCollide"
    /\ ~wc.result
    /\ LET moved == [wc.entity EXCEPT !.x = @ + wc.dx, !.y = @ + wc.dy]
       IN  \E i \in 1..Len(wc.obstacles) :
              /\ ~wc.obstacles[i].isSolid
              /\ checkCollision(moved, wc.obstacles[i])

-----------------------------------------------------------------------------
(* Specification SpecLoot: EquipmentFactory.generateRandomEquipment.  A    *)
(* Math.random() draw is d / DrawResolution with d in 0..DrawResolution-1, *)
(* so 0 is a possible draw and 1 is not.                                   *)

DrawResolution == 20

RarityKeys == <<"COMMON", "UNCOMMON", "RARE", "EPIC", "LEGENDARY">>

\* the weights object of generateRarity, in key order
RarityWeights(isBossDrop) ==
    IF isBossDrop THEN <<0, 10, 30, 40, 20>> ELSE <<60, 30, 8, 2, 0>>

RECURSIVE SumSeq(_)
SumSeq(seq) == IF seq = <<>> THEN 0 ELSE Head(seq) + SumSeq(Tail(seq))

\* the for loop of weightedRandom from entry i on; randomValue is kept
\* multiplied by DrawResolution
RECURSIVE weightedRandomLoop(_, _, _)
weightedRandomLoop(weights, i, randomValue) ==
    IF i > Len(weights) THEN RarityKeys[1]
    ELSE LET rest == randomValue - weights[i] * DrawResolution
         IN  IF rest <= 0 THEN RarityKeys[i]
             ELSE weightedRandomLoop(weights, i + 1, rest)

\* EquipmentFactory.generateRarity(isBossDrop) when Math.random() returns
\* d / DrawResolution
generateRarity(isBossDrop, d) ==
    LET weights == RarityWeights(isBossDrop)
        totalWeight == SumSeq(weights)
    IN  weightedRandomLoop(weights, 1, d * totalWeight)

\* rarity.toLowerCase()
toLowerCase(key) ==
    CASE key = "COMMON" -> "common"
      [] key = "UNCOMMON" -> "uncommon"
      [] key = "RARE" -> "rare"
      [] key = "EPIC" -> "epic"
      [] key = "LEGENDARY" -> "legendary"

EquipmentTypeKeys == <<"WEAPON", "ARMOR", "ACCESSORY">>

\* RARITY_TYPES of the types module: the rarity strings
RARITY_TYPES ==
    [COMMON |-> "common", UNCOMMON |-> "uncommon", RARE |-> "rare",
     EPIC |-> "epic", LEGENDARY |-> "legendary"]

\* the UTF-16 code units of a rarity string
CharCodes(str) ==
    CASE str = "common" -> <<99, 111, 109, 109, 111, 110>>
      [] str = "uncommon" -> <<117, 110, 99, 111, 109, 109, 111, 110>>
      [] str = "rare" -> <<114, 97, 114, 101>>
      [] str = "epic" -> <<101, 112, 105, 99>>
      [] str = "legendary" -> <<108, 101, 103, 101, 110, 100, 97, 114, 121>>

\* a >= b on two sequences of code units: the comparison JavaScript makes
\* when both operands of >= are strings
RECURSIVE CodeUnitsGE(_, _)
CodeUnitsGE(a, b) ==
    IF b = <<>> THEN TRUE
    ELSE IF a = <<>> THEN FALSE
    ELSE IF Head(a) # Head(b) THEN Head(a) > Head(b)
    ELSE CodeUnitsGE(Tail(a), Tail(b))

\* BaseEquipment.prototype.getRarityLevel
getRarityLevel(rarity) ==
    CASE rarity = "common" -> 0
      [] rarity = "uncommon" -> 1
      [] rarity = "rare" -> 2
      [] rarity = "epic" -> 3
      [] rarity = "legendary" -> 4

\* Weapon.generateWeaponStats: the keys it leaves in this.stats
Weapon_generateWeaponStats(rarity) ==
    {"attack"} \cup
    (IF CodeUnitsGE(CharCodes(rarity), CharCodes(RARITY_TYPES.RARE))
     THEN {"criticalRate"} ELSE {})

\* Armor.generateArmorStats: the keys it leaves in this.stats
Armor_generateArmorStats == {"defense", "maxHealth"}

\* the statOptions of Accessory.generateAccessoryStats, by the key each sets
statOptions == {"attack", "defense", "maxHealth", "criticalRate", "lifesteal"}

\* statCount of Accessory.generateAccessoryStats
statCount(rarity) == Min(1 + getRarityLevel(rarity), Cardinality(statOptions))

\* the selections the shuffle of Accessory.generateAccessoryStats can make
SelectedStats(rarity) ==
    {selected \in SUBSET statOptions : Cardinality(selected) = statCount(rarity)}

\* EquipmentFactory.generateRandomEquipment(playerLevel, isBossDrop) with
\* the three draws it makes, in order: rarity, level, type, and the stat
\* options an Accessory selects; stats holds the keys of the item's stats
generateRandomEquipment(playerLevel, isBossDrop, draws, selected) ==
    LET rarity == generateRarity(isBossDrop, draws[1])
        equipmentLevel ==
            (playerLevel * (8 * DrawResolution + 4 * draws[2]))
                \div (10 * DrawResolution)
        equipmentType ==
            EquipmentTypeKeys[(draws[3] * Len(EquipmentTypeKeys))
                                 \div DrawResolution + 1]
    IN  [type |-> equipmentType, rarity |-> toLowerCase(rarity),
         level |-> equipmentLevel, isEquipped |-> FALSE,
         stats |-> CASE equipmentType = "WEAPON" ->
                            Weapon_generateWeaponStats(toLowerCase(rarity))
                     [] equipmentType = "ARMOR" -> Armor_generateArmorStats
                     [] equipmentType = "ACCESSORY" -> selected]

\* EquipmentManager.generateBossDrop(playerLevel)
generateBossDrop(playerLevel, draws, selected) ==
    generateRandomEquipment(playerLevel, TRUE, draws, selected)

PlayerLevels == {1, 10}

OtherDraws == {0, DrawResolution \div 2, DrawResolution - 1}

\* item = equipmentFactory.generateRandomEquipment(playerLevel, isBossDrop)
GenerateRandomEquipment ==
    /\ loot.op = "input"
    /\ ~loot.viaManager
    /\ \E selected \in SelectedStats(toLowerCase(generateRarity(loot.isBossDrop,
                                                              loot.draws[1]))) :
          loot' = [op |-> "generateRandomEquipment",
                   isBossDrop |-> loot.isBossDrop, draws |-> loot.draws,
                   item |-> generateRandomEquipment(loot.playerLevel,
                                loot.isBossDrop, loot.draws, selected)]
    /\ UNCHANGED <<tickVars, playerVars, combatVars, last, steps, mapVars, wc>>

\* item = equipmentManager.generateBossDrop(playerLevel)
GenerateBossDrop ==
    /\ loot.op = "input"
    /\ loot.viaManager
    /\ \E selected \in SelectedStats(toLowerCase(generateRarity(TRUE,
                                                              loot.draws[1]))) :
          loot' = [op |-> "generateBossDrop", isBossDrop |-> TRUE,
                   draws |-> loot.draws,
                   item |-> generateBossDrop(loot.playerLevel, loot.draws,
                                             selected)]
    /\ UNCHANGED <<tickVars, playerVars, combatVars, last, steps, mapVars, wc>>

InitLoot ==
    /\ IdlePlayer
    /\ last = NoOp
    /\ steps = 0
    /\ IdleTick
    /\ IdleMap
    /\ wc = NoOp
    /\ \E playerLevel \in PlayerLevels, isBossDrop \in BOOLEAN,
          d1 \in 0..(DrawResolution - 1), d2 \in OtherDraws, d3 \in OtherDraws :
          \/ loot = [op |-> "input", viaManager |-> FALSE,
                     playerLevel |-> playerLevel, isBossDrop |-> isBossDrop,
                     draws |-> <<d1, d2, d3>>]
          \/ /\ isBossDrop
             /\ loot = [op |-> "input", viaManager |-> TRUE,
                        playerLevel |-> playerLevel, isBossDrop |-> TRUE,
                        draws |-> <<d1, d2, d3>>]

NextLoot ==
    \/ GenerateRandomEquipment
    \/ GenerateBossDrop

SpecLoot == InitLoot /\ [][NextLoot]_vars

\* C5: an item generated with isBossDrop = true is never of rarity common,
\* whatever the random draw, 0 included.
C5_BossDropNeverCommon ==
    (loot.op \in {"generateRandomEquipment", "generateBossDrop"} /\ loot.isBossDrop)
        => loot.item.rarity # "common"

\* C34: a generated Weapon carries a criticalRate stat exactly when its
\* rarity is rare, epic or legendary.
C34_WeaponCritAtRareOrHigher ==
    (loot.op \in {"generateRandomEquipment", "generateBossDrop"}
        /\ loot.item.type = "WEAPON")
        => ("criticalRate" \in loot.item.stats
               <=> loot.item.rarity \in {"rare", "epic", "legendary"})

-----------------------------------------------------------------------------
(* Skills: BaseSkill.update, BaseSkill.triggerCooldown and Player.learnSkill.
   Times are in milliseconds (the code's seconds times 1000).              *)

\* new BaseSkill(...): level 1, currentCooldown 0; every skill class of
\* SkillSystem.ts passes maxLevel 10
BaseSkill(id, cooldown) ==
    [id |-> id, level |-> 1, maxLevel |-> 10, cooldown |-> cooldown,
     currentCooldown |-> 0, methods |-> TRUE]

\* new FireballSkill(): 2 seconds of cooldown
FireballSkill == BaseSkill("fireball", 2000)

\* new ExperienceAuraSkill(): no cooldown
ExperienceAuraSkill == BaseSkill("experienceAura", 0)

\* BaseSkill.update without the floor at 0 (the fault C18 guards against)
BaseSkill_update_NoFloor(skill, deltaTime) ==
    IF skill.currentCooldown > 0
    THEN [skill EXCEPT !.currentCooldown = @ - deltaTime]
    ELSE skill

\* BaseSkill.update(deltaTime, owner); the overrides of FireballSkill and
\* ExperienceAuraSkill call it and change nothing else of the Skill interface
\* (findNearestMonster returns null, so FireballSkill.update never casts)
BaseSkill_update(skill, deltaTime) ==
    IF skill.currentCooldown > 0
    THEN LET lowered == skill.currentCooldown - deltaTime
         IN  [skill EXCEPT !.currentCooldown = IF lowered < 0 THEN 0 ELSE lowered]
    ELSE skill

\* BaseSkill.triggerCooldown()
BaseSkill_triggerCooldown(skill) ==
    [skill EXCEPT !.currentCooldown = skill.cooldown]

\* a learnSkill without the test of skillPoints at its head
Player_learnSkill_NoPointCheck(p, heap, list, ref) ==
    LET found == FindFirst({i \in 1..Len(list) : heap[list[i]].id = heap[ref].id})
    IN  IF found # 0
        THEN [player |-> [p EXCEPT !.skillPoints = @ - 1],
              heap |-> [heap EXCEPT ![list[found]].level = @ + 1],
              list |-> list]
        ELSE [player |-> [p EXCEPT !.skillPoints = @ - 1],
              heap |-> Append(heap, [heap[ref] EXCEPT !.level = 1,
                                                      !.methods = FALSE]),
              list |-> Append(list, Len(heap) + 1)]

\* Player.learnSkill(skill): ref is the skill passed in; the result holds the
\* player, the skill objects and player.skills afterwards.  A new skill is
\* stored as the spread copy {...skill, level: 1}, an object without methods.
Player_learnSkill(p, heap, list, ref) ==
    IF p.skillPoints <= 0 THEN [player |-> p, heap |-> heap, list |-> list]
    ELSE LET found == FindFirst({i \in 1..Len(list) : heap[list[i]].id = heap[ref].id})
         IN  IF found # 0
             THEN LET existingSkill == list[found]
                  IN  IF heap[existingSkill].level < heap[existingSkill].maxLevel
                      THEN [player |-> [p EXCEPT !.skillPoints = @ - 1],
                            heap |-> [heap EXCEPT ![existingSkill].level = @ + 1],
                            list |-> list]
                      ELSE [player |-> p, heap |-> heap, list |-> list]
             ELSE [player |-> [p EXCEPT !.skillPoints = @ - 1],
                   heap |-> Append(heap, [heap[ref] EXCEPT !.level = 1,
                                                           !.methods = FALSE]),
                   list |-> Append(list, Len(heap) + 1)]

\* Specification SpecSkill: the two skill instances of the pool, a player
\* that may already have learnt the fireball, and any interleaving of
\* update, triggerCooldown and learnSkill.
MaxSkillSteps == 4

\* frame times, a pause, and a delta longer than any cooldown (milliseconds)
SkillDeltas == {0, 16, 1500, 2500}

\* levels a learnt skill can have reached by earlier learnSkill calls
LearntLevels == {1, 9, 10}

\* skill points left over from earlier level-ups
SkillPointsLeft == 0..2

SkillUpdate(ref, deltaTime) ==
    /\ steps < MaxSkillSteps
    /\ ref \in 1..Len(skillHeap)
    /\ skillHeap[ref].methods
    /\ skillHeap' = [skillHeap EXCEPT ![ref] = BaseSkill_update(@, deltaTime)]
    /\ last' = [op |-> "skill.update", ref |-> ref, deltaTime |-> deltaTime,
                before |-> skillHeap[ref].currentCooldown]
    /\ steps' = steps + 1
    /\ UNCHANGED <<playerVars, combatVars, mapVars, pureVars, playerSkills, game>>

SkillTriggerCooldown(ref) ==
    /\ steps < MaxSkillSteps
    /\ ref \in 1..Len(skillHeap)
    /\ skillHeap[ref].methods
    /\ skillHeap' = [skillHeap EXCEPT ![ref] = BaseSkill_triggerCooldown(@)]
    /\ last' = [op |-> "skill.triggerCooldown", ref |-> ref]
    /\ steps' = steps + 1
    /\ UNCHANGED <<playerVars, combatVars, mapVars, pureVars, playerSkills, game>>

LearnSkill(ref) ==
    /\ steps < MaxSkillSteps
    /\ ref \in 1..Len(skillHeap)
    /\ \E u \in {Player_learnSkill(player, skillHeap, playerSkills, ref)} :
          /\ player' = u.player
          /\ skillHeap' = u.heap
          /\ playerSkills' = u.list
    /\ last' = [op |-> "learnSkill", ref |-> ref,
                skillPointsBefore |-> player.skillPoints,
                heapBefore |-> skillHeap]
    /\ steps' = steps + 1
    /\ UNCHANGED <<items, combatVars, mapVars, pureVars, game>>

InitSkill ==
    /\ \E points \in SkillPointsLeft : player = [NewPlayer EXCEPT !.skillPoints = points]
    /\ items = <<>>
    /\ monsters = <<>>
    /\ now = 0
    /\ last = NoOp
    /\ steps = 0
    /\ IdleMap
    /\ IdlePure
    /\ game = NoOp
    /\ \/ /\ skillHeap = <<FireballSkill, ExperienceAuraSkill>>
          /\ playerSkills = <<>>
       \/ \E level \in LearntLevels :
             /\ skillHeap = <<FireballSkill, ExperienceAuraSkill,
                              [FireballSkill EXCEPT !.level = level,
                                                    !.methods = FALSE]>>
             /\ playerSkills = <<3>>

NextSkill ==
    \/ \E ref \in 1..4, deltaTime \in SkillDeltas : SkillUpdate(ref, deltaTime)
    \/ \E ref \in 1..4 : SkillTriggerCooldown(ref)
    \/ \E ref \in 1..4 : LearnSkill(ref)

SpecSkill == InitSkill /\ [][NextSkill]_vars

\* C18: for every skill, whatever sequence of update (deltaTime >= 0),
\* triggerCooldown and learnSkill has run, level <= maxLevel and
\* currentCooldown >= 0; an update leaves currentCooldown at the larger of 0
\* and its old value minus deltaTime.
C18_SkillLevelAndCooldownBounded ==
    /\ \A ref \in 1..Len(skillHeap) :
          /\ skillHeap[ref].level <= skillHeap[ref].maxLevel
          /\ skillHeap[ref].currentCooldown >= 0
    /\ last.op = "skill.update" =>
          skillHeap[last.ref].currentCooldown = Max(0, last.before - last.deltaTime)

\* an update that overshoots a running cooldown, while the player holds a
\* skill that learnSkill has raised to its maxLevel
C18_Witness ==
    /\ last.op = "skill.update"
    /\ last.before > 0
    /\ last.deltaTime > last.before
    /\ skillHeap[last.ref].currentCooldown = 0
    /\ \E i \in 1..Len(playerSkills) :
          /\ skillHeap[playerSkills[i]].level = skillHeap[playerSkills[i]].maxLevel
          /\ player.skillPoints > 0

-----------------------------------------------------------------------------
(* The GameSystem tick: animate, update and the eleven calls of update.
   game.pc is the position in update (0 between frames, k while the k-th
   call of UpdateOrder is due), game.sub the position inside
   checkCollisions.  Times are in milliseconds.  The desktop inputs are
   modelled: the joystick is inactive and attackButton.pressed is false.
   The monsters stand on the horizontal line through the player (the
   spawn angle 0), so that a move towards the player is a whole number.     *)

\* GameSystem.update: the calls of its body, in order
UpdateOrder_GameOverFirst ==
    <<"updatePlayer", "updateCamera", "checkMonsterSpawn", "updateMonsters",
      "updateSkills", "applyAuraEffects", "applySlowEffects", "checkGameOver",
      "checkCollisions", "updateMap", "updateAttackEffects">>

UpdateOrder ==
    <<"updatePlayer", "updateCamera", "checkMonsterSpawn", "updateMonsters",
      "updateSkills", "applyAuraEffects", "applySlowEffects", "checkCollisions",
      "updateMap", "checkGameOver", "updateAttackEffects">>

\* half of canvas.width and canvas.height (the window's inner size)
CanvasHalfWidth == 400

CanvasHalfHeight == 300

\* the experience a player has gained in all: what the levels reached have
\* consumed, plus what is left
TotalExperience(p) == ThresholdsConsumed(100, p.level - 1) + p.experience

\* the fields of a GameSystem after its constructor; tick, loops, trace,
\* deaths, startExperience and startEquipment are records of the run, and so
\* are canAttack (what Player.canAttack found in the last checkPlayerAttacks),
\* sweepStart and hits (the monster list when the last sweep began, and the
\* ids of the monsters whose takeDamage it has called) and monsterHits (the
\* id and the time of every hit of checkMonsterAttacks on the player) and
\* movedFrom (where the player was when the last updatePlayer began);
\* thrown is TRUE once an exception has left update and animate
NewGame(p, keys) ==
    [pc |-> 0, sub |-> "none", isGameOver |-> FALSE, lastTime |-> 0,
     deltaTime |-> 0, keysPressed |-> keys, camera |-> [x |-> 0, y |-> 0],
     score |-> 0, attackEffects |-> <<>>, frames |-> 0, i |-> 0,
     attackDamage |-> 0, tick |-> 0, loops |-> 0, trace |-> <<>>,
     deaths |-> <<>>, startExperience |-> TotalExperience(p),
     startEquipment |-> Len(p.equipment),
     canAttack |-> FALSE, sweepStart |-> <<>>, hits |-> <<>>,
     monsterHits |-> <<>>, movedFrom |-> [x |-> p.x, y |-> p.y],
     thrown |-> FALSE]

\* Player.performAttack() at Date.now() = currentTime; crit is the outcome of
\* Math.random() < 0.05.  The damage is in health units.
Player_performAttack(p, heap, currentTime, crit) ==
    IF ~(currentTime - p.lastAttackTime >= p.attackSpeed)
    THEN [player |-> p, damage |-> 0]
    ELSE LET equipped == {k \in 1..Len(p.equipment) :
                             heap[p.equipment[k]].isEquipped}
             RECURSIVE Bonus(_)
             Bonus(ks) == IF ks = {} THEN 0
                          ELSE LET k == CHOOSE k \in ks : TRUE
                               IN  heap[p.equipment[k]].attack + Bonus(ks \ {k})
             finalAttack == (p.attack + Bonus(equipped)) * Scale
         IN  [player |-> [p EXCEPT !.lastAttackTime = currentTime],
              damage |-> IF crit THEN (finalAttack * 3) \div 2 ELSE finalAttack]

\* one iteration of the for-of loop of GameSystem.updateMonsters for a
\* monster on the player's horizontal line: 150 units per second towards
\* the player, nothing at distance 0
MoveTowardsPlayer(monster, p, deltaTime) ==
    LET dx == p.x - monster.x
        move == (150 * deltaTime) \div 1000
    IN  IF dx = 0 THEN monster
        ELSE [monster EXCEPT !.x = IF dx > 0 THEN @ + move ELSE @ - move]

\* a handleMonsterDeath that removes the head of the list, whatever index
SpliceMonster_First(ms, index) == Tail(ms)

\* a handleMonsterDeath that leaves the dead monster in the list
SpliceMonster_Kept(ms, index) == ms

\* gameState.monsters.splice(index, 1), the last statement of
\* handleMonsterDeath
SpliceMonster(ms, index) == RemoveAt(ms, index)

\* GameSystem.updateAttackEffects(deltaTime): the lifetimes that remain
RECURSIVE DecayEffects(_, _)
DecayEffects(effects, deltaTime) ==
    IF effects = <<>> THEN <<>>
    ELSE LET lifetime == Head(effects) - deltaTime
             rest == DecayEffects(Tail(effects), deltaTime)
         IN  IF lifetime <= 0 THEN rest ELSE <<lifetime>> \o rest

\* Specification SpecTick.
MaxTicks == 2

MaxTickLevel == 8

\* frame deltas: none, a slow frame, a frame after a pause
TickDeltas == {0, 400, 3000}

\* keysPressed, as the key handlers left it: the keys held during the run
TickKeys == { {}, {" "}, {" ", "ArrowRight"} }

\* what MonsterSpawner.spawnMonster draws: <<level, isElite, isBoss>>
SpawnKinds == { <<1, FALSE, FALSE>> }

\* what Monster.dropLoot returns: nothing, or one item (a plain object)
DropOutcomes == { <<>>, <<Item("loot", "ARMOR", 0, 5, 10, FALSE)>> }

\* a monster with health left and its id
Wounded(monster, health, id) ==
    [monster EXCEPT !.health = health * Scale] @@ [id |-> id]

\* the game in the middle of a fight: the player and the monsters in play.
\* A veteran of level 5 (four level-ups with the smallest gains) and a boss, one hit from death, that reaches the
\* player during a pause; a fresh player between two weak monsters and an
\* elite; a wounded player next to an elite; a player close to a level-up
\* between two weak monsters.
TickSetups ==
    { [player |-> [NewPlayer EXCEPT !.level = 5, !.experienceToNextLevel = 505,
                                    !.maxHealth = 180 * Scale,
                                    !.health = 180 * Scale,
                                    !.attack = 40, !.defense = 17,
                                    !.skillPoints = 4],
       monsters |-> <<Wounded(Monster(550, 0, 3, FALSE, TRUE), 15, 1)>>],
      [player |-> NewPlayer,
       monsters |-> <<Wounded(Monster(100, 0, 1, FALSE, FALSE), 10, 1),
                      Wounded(Monster(40, 0, 1, TRUE, FALSE), 400, 2),
                      Wounded(Monster(0 - 100, 0, 1, FALSE, FALSE), 10, 3)>>],
      [player |-> [NewPlayer EXCEPT !.health = 3 * Scale],
       monsters |-> <<Wounded(Monster(40, 0, 1, TRUE, FALSE), 400, 1)>>],
      [player |-> [NewPlayer EXCEPT !.experience = 95],
       monsters |-> <<Wounded(Monster(100, 0, 1, FALSE, FALSE), 10, 1),
                      Wounded(Monster(0 - 120, 0, 2, FALSE, FALSE), 10, 2)>>] }

\* the k-th call of update is due and checkCollisions is not under way
AtStep(name) ==
    /\ game.pc # 0
    /\ UpdateOrder[game.pc] = name
    /\ game.sub = "none"

\* the call has begun: it is entered in the trace
Began(g, name) ==
    [g EXCEPT !.trace = Append(@, [tick |-> g.tick, step |-> name])]

\* the call has returned: the next one is due, or update has returned
Returned(g) ==
    IF g.pc = Len(UpdateOrder)
    THEN [g EXCEPT !.pc = 0, !.sub = "none", !.frames = @ + 1]
    ELSE [g EXCEPT !.pc = @ + 1, !.sub = "none"]

\* animate that calls update whatever isGameOver says
RunsUpdate_Always(g) == TRUE

\* the test of animate: if (!this.isGameOver) this.update(...)
RunsUpdate(g) == ~g.isGameOver

\* GameSystem.animate(currentTime), up to the first call of update
Animate(delta) ==
    /\ game.pc = 0
    /\ ~game.thrown
    /\ game.frames < MaxTicks
    /\ now' = now + delta
    /\ game' = IF ~RunsUpdate(game)
               THEN [game EXCEPT !.lastTime = @ + delta, !.frames = @ + 1]
               ELSE [game EXCEPT !.lastTime = @ + delta, !.deltaTime = delta,
                                 !.pc = 1,
                                 !.tick = @ + 1]
    /\ UNCHANGED <<playerVars, monsters, last, steps, mapVars, pureVars,
                   skillHeap, playerSkills>>

UpdatePlayer ==
    /\ AtStep("updatePlayer")
    /\ LET speed == (300 * game.deltaTime) \div 1000
           Key(k, d) == IF k \in game.keysPressed THEN d ELSE 0
       IN  player' = [player EXCEPT
                         !.x = @ + Key("ArrowRight", speed) - Key("ArrowLeft", speed),
                         !.y = @ + Key("ArrowDown", speed) - Key("ArrowUp", speed)]
    /\ game' = Returned([Began(game, "updatePlayer") EXCEPT
                            !.movedFrom = [x |-> player.x, y |-> player.y]])
    /\ UNCHANGED <<items, combatVars, last, steps, mapVars, pureVars,
                   skillHeap, playerSkills>>

UpdateCamera ==
    /\ AtStep("updateCamera")
    /\ game' = Returned([Began(game, "updateCamera") EXCEPT
                            !.camera = [x |-> player.x - CanvasHalfWidth,
                                        y |-> player.y - CanvasHalfHeight]])
    /\ UNCHANGED <<playerVars, combatVars, last, steps, mapVars, pureVars,
                   skillHeap, playerSkills>>

CheckMonsterSpawn(kind) ==
    /\ AtStep("checkMonsterSpawn")
    /\ monsters' =
          IF Len(monsters) < 10
          THEN Append(monsters,
                      Monster(player.x + 1000, player.y, kind[1], kind[2], kind[3])
                        @@ [id |-> 10 * game.tick])
          ELSE monsters
    /\ game' = Returned(Began(game, "checkMonsterSpawn"))
    /\ UNCHANGED <<playerVars, now, last, steps, mapVars, pureVars,
                   skillHeap, playerSkills>>

UpdateMonsters ==
    /\ AtStep("updateMonsters")
    /\ monsters' = [k \in 1..Len(monsters) |->
                       MoveTowardsPlayer(monsters[k], player, game.deltaTime)]
    /\ game' = Returned(Began(game, "updateMonsters"))
    /\ UNCHANGED <<playerVars, now, last, steps, mapVars, pureVars,
                   skillHeap, playerSkills>>

\* updateSkills, applyAuraEffects and applySlowEffects have empty bodies
EmptyStep(name) ==
    /\ AtStep(name)
    /\ game' = Returned(Began(game, name))
    /\ UNCHANGED <<playerVars, combatVars, last, steps, mapVars, pureVars,
                   skillHeap, playerSkills>>

\* checkCollisions enters checkPlayerAttacks: up to the for loop
CheckPlayerAttacks(crit) ==
    /\ AtStep("checkCollisions")
    /\ IF " " \in game.keysPressed
       THEN \E u \in {Player_performAttack(player, items, now, crit)} :
              /\ player' = u.player
              /\ game' = [Began(game, "checkCollisions") EXCEPT
                             !.attackEffects = Append(@, 500),
                             !.attackDamage = IF u.damage > 0 THEN u.damage
                                              ELSE 25 * Scale,
                             !.i = Len(monsters),
                             !.sub = "sweep",
                             !.canAttack = now - player.lastAttackTime
                                              >= player.attackSpeed,
                             !.sweepStart = monsters,
                             !.hits = <<>>]
       ELSE /\ player' = player
            /\ game' = [Began(game, "checkCollisions") EXCEPT
                           !.sub = "checkMonsterAttacks"]
    /\ UNCHANGED <<items, combatVars, last, steps, mapVars, pureVars,
                   skillHeap, playerSkills>>

\* one iteration of the for loop of checkPlayerAttacks, up to the while
\* loop of gainExperience when the monster dies
SweepMonster ==
    /\ game.pc # 0 /\ game.sub = "sweep"
    /\ IF game.i = 0
       THEN /\ game' = [game EXCEPT !.sub = "checkMonsterAttacks"]
            /\ UNCHANGED <<player, monsters>>
       ELSE LET monster == monsters[game.i]
                hit == Monster_takeDamage(monster, game.attackDamage)
            IN  IF WithinDistance(player, monster, 150)
                THEN /\ monsters' = [monsters EXCEPT ![game.i] = hit]
                     /\ IF hit.health <= 0
                        THEN /\ game' = [game EXCEPT
                                           !.attackEffects = Append(@, 500),
                                           !.hits = Append(@, monster.id),
                                           !.score = @ + monster.experienceReward,
                                           !.loops = 0,
                                           !.sub = "gainExperience"]
                             /\ player' = [player EXCEPT !.experience =
                                              @ + monster.experienceReward]
                        ELSE /\ game' = [game EXCEPT
                                           !.attackEffects = Append(@, 500),
                                           !.hits = Append(@, monster.id),
                                           !.i = @ - 1]
                             /\ player' = player
                ELSE /\ game' = [game EXCEPT !.i = @ - 1]
                     /\ UNCHANGED <<player, monsters>>
    /\ UNCHANGED <<items, now, last, steps, mapVars, pureVars,
                   skillHeap, playerSkills>>

\* one iteration of the while loop of Player.gainExperience
LevelUpIteration(gain) ==
    /\ game.pc # 0 /\ game.sub = "gainExperience"
    /\ player.experience >= player.experienceToNextLevel
    /\ player.level < MaxTickLevel
    /\ player' = Player_levelUp(player, gain)
    /\ game' = [game EXCEPT !.loops = @ + 1]
    /\ UNCHANGED <<items, combatVars, last, steps, mapVars, pureVars,
                   skillHeap, playerSkills>>

\* the while loop is left; the rest of handleMonsterDeath: dropLoot,
\* addEquipment for each item, splice
HandleMonsterDeathEnd(drop) ==
    /\ game.pc # 0 /\ game.sub = "gainExperience"
    /\ ~(player.experience >= player.experienceToNextLevel)
    /\ IF drop = <<>>
       THEN UNCHANGED <<player, items>>
       ELSE \E u \in {Player_addEquipment(player, Append(items, drop[1]),
                                          Len(items) + 1)} :
               player' = u.player /\ items' = u.items
    /\ monsters' = SpliceMonster(monsters, game.i)
    /\ game' = [game EXCEPT
                   !.deaths = Append(@, [id |-> monsters[game.i].id,
                                         reward |-> monsters[game.i].experienceReward,
                                         drops |-> Len(drop)]),
                   !.i = @ - 1,
                   !.sub = "sweep"]
    /\ UNCHANGED <<now, last, steps, mapVars, pureVars, skillHeap, playerSkills>>

\* the monsters checkMonsterAttacks lets hit the player, in list order
HittersOf(ms, p) == SelectSeq(ms, LAMBDA monster : WithinDistance(p, monster, 60))

\* the second half of checkCollisions
CheckMonsterAttacks_Tick ==
    /\ game.pc # 0 /\ game.sub = "checkMonsterAttacks"
    /\ player' = GameSystem_checkMonsterAttacks(monsters, 1, player, items)
    /\ game' = Returned([game EXCEPT !.monsterHits =
                            @ \o [k \in 1..Len(HittersOf(monsters, player)) |->
                                    [id |-> HittersOf(monsters, player)[k].id,
                                     attackSpeed |-> HittersOf(monsters, player)[k].attackSpeed,
                                     at |-> now]]])
    /\ UNCHANGED <<items, combatVars, last, steps, mapVars, pureVars,
                   skillHeap, playerSkills>>

UpdateMap ==
    /\ AtStep("updateMap")
    /\ \E u \in {updateActiveChunks(mapGen, player.x, player.y, mathRandom)} :
          mapGen' = u.map /\ mathRandom' = u.random
    /\ game' = Returned(Began(game, "updateMap"))
    /\ UNCHANGED <<playerVars, combatVars, last, steps, evicted, chunkObj,
                   pureVars, skillHeap, playerSkills>>

CheckGameOver ==
    /\ AtStep("checkGameOver")
    /\ game' = Returned([Began(game, "checkGameOver") EXCEPT
                            !.isGameOver = IF player.health <= 0 THEN TRUE ELSE @])
    /\ UNCHANGED <<playerVars, combatVars, last, steps, mapVars, pureVars,
                   skillHeap, playerSkills>>

UpdateAttackEffects ==
    /\ AtStep("updateAttackEffects")
    /\ game' = Returned([Began(game, "updateAttackEffects") EXCEPT
                            !.attackEffects = DecayEffects(@, game.deltaTime)])
    /\ UNCHANGED <<playerVars, combatVars, last, steps, mapVars, pureVars,
                   skillHeap, playerSkills>>

InitTick ==
    /\ \E setup \in TickSetups :
          player = setup.player /\ monsters = setup.monsters
    /\ items = <<>>
    /\ now = NowStart
    /\ last = NoOp
    /\ steps = 0
    /\ mapGen = MapGenerator(12345, ActiveChunkRadius)
    /\ mathRandom = 0
    /\ evicted = <<>>
    /\ chunkObj = <<>>
    /\ IdlePure
    /\ skillHeap = <<>>
    /\ playerSkills = <<>>
    /\ \E keys \in TickKeys : game = NewGame(player, keys)

\* the steps of one update, but for updateMap
StepButMap ==
    \/ UpdatePlayer
    \/ UpdateCamera
    \/ \E kind \in SpawnKinds : CheckMonsterSpawn(kind)
    \/ UpdateMonsters
    \/ \E name \in {"updateSkills", "applyAuraEffects", "applySlowEffects"} :
          EmptyStep(name)
    \/ \E crit \in BOOLEAN : CheckPlayerAttacks(crit)
    \/ SweepMonster
    \/ \E gain \in LevelUpGains : LevelUpIteration(gain)
    \/ \E drop \in DropOutcomes : HandleMonsterDeathEnd(drop)
    \/ CheckMonsterAttacks_Tick
    \/ CheckGameOver
    \/ UpdateAttackEffects

NextTick ==
    \/ \E delta \in TickDeltas : Animate(delta)
    \/ StepButMap
    \/ UpdateMap

SpecTick == InitTick /\ [][NextTick]_vars

\* animate runs update to its end before it returns to the browser: a step
\* that stays possible is taken.  UpdateMap has no guard but
\* AtStep("updateMap") and leaves it, so its weak fairness is
\* []<>~AtStep("updateMap").
SpecTickFair ==
    /\ InitTick
    /\ [][NextTick]_vars
    /\ WF_vars(StepButMap)
    /\ []<>~AtStep("updateMap")

\* C12: every update that animate starts returns: the while loop of
\* gainExperience ends for every reward from every player state, and no other
\* call of update loops, whatever the frame delta.
C12_TickTerminates == (game.pc # 0) ~> (game.pc = 0)

\* an update after a pause has returned, and a gainExperience in it went
\* round its loop more than once
C12_Witness ==
    /\ game.pc = 0
    /\ game.frames > 0
    /\ game.deltaTime = 3000
    /\ game.loops >= 2
    /\ player.experience < player.experienceToNextLevel

\* C14: between two frames the player and every monster in the list have
\* 0 <= health <= maxHealth.
C14_HealthWithinBoundsAtRest ==
    game.pc = 0 =>
        /\ player.health >= 0 /\ player.health <= player.maxHealth
        /\ \A k \in 1..Len(monsters) :
              monsters[k].health >= 0 /\ monsters[k].health <= monsters[k].maxHealth

\* sums over the records of the deaths handled so far
RECURSIVE SumDeaths(_, _)
SumDeaths(deaths, field) ==
    IF deaths = <<>> THEN 0
    ELSE Head(deaths)[field] + SumDeaths(Tail(deaths), field)

\* C19: each monster death is handled once: no monster is in the record of
\* deaths twice; outside handleMonsterDeath the score, the player's
\* experience and the player's equipment have grown by exactly the rewards
\* and the loot of the recorded deaths; and once the sweep of
\* checkPlayerAttacks is over no dead monster is left in the list.
C19_DeathHandledExactlyOnce ==
    /\ \A a, b \in 1..Len(game.deaths) :
          game.deaths[a].id = game.deaths[b].id => a = b
    /\ game.sub # "gainExperience" =>
          /\ game.score = SumDeaths(game.deaths, "reward")
          /\ TotalExperience(player) =
                game.startExperience + SumDeaths(game.deaths, "reward")
          /\ Len(player.equipment) =
                game.startEquipment + SumDeaths(game.deaths, "drops")
          /\ \A k \in 1..Len(monsters), d \in 1..Len(game.deaths) :
                monsters[k].id # game.deaths[d].id
    /\ game.sub \notin {"sweep", "gainExperience"} =>
          \A k \in 1..Len(monsters) : monsters[k].health > 0

\* two monsters have died in one sweep and a later update has returned
C19_Witness ==
    /\ game.pc = 0
    /\ game.frames = 2
    /\ Len(game.deaths) = 2
    /\ game.score = 22
    /\ player.level > 1
    /\ Len(player.equipment) > 0

\* C23: game over is terminal and removes nothing.  Between two frames the
\* flag is set exactly when the player's health is <= 0, so the tick that
\* depletes the health also sets the flag, and it is checkGameOver that sets
\* it; the player stays in the game state; once the flag is set it stays
\* set, no tick begins, and player, monsters and score no longer change.
C23_GameOverIsTerminal ==
    [][/\ game'.pc = 0 => (game'.isGameOver <=> player'.health <= 0)
       /\ (game'.isGameOver /\ ~game.isGameOver) =>
              /\ AtStep("checkGameOver")
              /\ player.health <= 0
       /\ DOMAIN player' = DOMAIN NewPlayer
       /\ game.isGameOver =>
              /\ game'.isGameOver
              /\ game'.tick = game.tick
              /\ player' = player
              /\ monsters' = monsters
              /\ game'.score = game.score]_vars

\* the player has died in the first tick and a later frame has passed
C23_Witness ==
    /\ game.pc = 0
    /\ game.isGameOver
    /\ player.health <= 0
    /\ game.tick = 1
    /\ game.frames = 2
    /\ Len(monsters) > 0

\* a sweep of checkPlayerAttacks has begun in this tick; it is over
InSweep ==
    /\ game.pc # 0
    /\ " " \in game.keysPressed
    /\ game.sub \in {"sweep", "gainExperience", "checkMonsterAttacks"}

SweepDone == InSweep /\ game.sub = "checkMonsterAttacks"

\* C25: in a tick with the attack key held the sweep follows the player's
\* cadence: when now - lastAttackTime >= attackSpeed held at the tick
\* lastAttackTime is now; when it did not hold no monster has lost health
\* (the list is as it was when the sweep began).
C25_PlayerAttackCadence ==
    InSweep =>
        /\ game.canAttack => player.lastAttackTime = now
        /\ ~game.canAttack => monsters = game.sweepStart

\* C26: between two hits of the same monster on the player in
\* checkMonsterAttacks at least the monster's attackSpeed has elapsed.
C26_MonsterAttackCadence ==
    \A j1, j2 \in 1..Len(game.monsterHits) :
        (j1 < j2 /\ game.monsterHits[j1].id = game.monsterHits[j2].id) =>
            game.monsterHits[j2].at - game.monsterHits[j1].at
                >= game.monsterHits[j1].attackSpeed

\* the ids in a sequence of ids or of monsters
IdsHit(hits) == {hits[j] : j \in 1..Len(hits)}

\* C28: in one sweep no monster has takeDamage called twice and none that
\* was farther than 150 from the player has it called; when the sweep is
\* over every monster of the list at its start that was within 150 has been
\* hit once and is gone if the hit killed it, or is there with the hit taken,
\* every monster farther than 150 is there untouched, and the survivors keep
\* their order.
C28_SweepHitsEachInRangeOnce ==
    /\ InSweep =>
          /\ \A j1, j2 \in 1..Len(game.hits) :
                j1 # j2 => game.hits[j1] # game.hits[j2]
          /\ \A j \in 1..Len(game.hits) :
                \E k \in 1..Len(game.sweepStart) :
                    /\ game.sweepStart[k].id = game.hits[j]
                    /\ WithinDistance(player, game.sweepStart[k], 150)
    /\ SweepDone =>
          LET After(m) == IF WithinDistance(player, m, 150)
                          THEN Monster_takeDamage(m, game.attackDamage)
                          ELSE m
              Survives(m) == After(m).health > 0
                             \/ ~WithinDistance(player, m, 150)
              survivors == SelectSeq(game.sweepStart, Survives)
          IN  /\ \A k \in 1..Len(game.sweepStart) :
                    WithinDistance(player, game.sweepStart[k], 150)
                        <=> game.sweepStart[k].id \in IdsHit(game.hits)
              /\ monsters = [k \in 1..Len(survivors) |-> After(survivors[k])]

\* a sweep is over that hit three monsters, killed two of them, the first
\* and the last of the list among them, and passed a monster out of range
C28_Witness ==
    /\ SweepDone
    /\ Len(game.hits) = 3
    /\ Len(game.sweepStart) = 4
    /\ Len(monsters) = 2
    /\ monsters[1].health < monsters[1].maxHealth
    /\ \E k \in 1..Len(game.sweepStart) :
          ~WithinDistance(player, game.sweepStart[k], 150)

\* the player's collision box at (x, y): width 40, height 60
PlayerBox(x, y) == [x |-> x, y |-> y, width |-> 40, height |-> 60]

\* C29: when updatePlayer has returned, a player whose box overlapped no
\* solid obstacle of the chunk store before the step overlaps none after it,
\* and each axis has moved exactly when willCollide found that axis free.
C29_MovementGatedByWillCollide ==
    (game.pc # 0 /\ game.sub = "none" /\ UpdateOrder[game.pc] = "updateCamera") =>
        LET before == PlayerBox(game.movedFrom.x, game.movedFrom.y)
            after == PlayerBox(player.x, player.y)
            solid == {o \in UNION {{mapGen.chunks[k].obstacles[i] :
                                      i \in 1..Len(mapGen.chunks[k].obstacles)} :
                                   k \in DOMAIN mapGen.chunks} : o.isSolid}
            speed == (300 * game.deltaTime) \div 1000
            dx == IF "ArrowRight" \in game.keysPressed THEN speed ELSE 0
            Blocked(moved) == \E o \in solid : checkCollision(moved, o)
        IN  (~Blocked(before)) =>
                /\ ~Blocked(after)
                /\ after.x = IF Blocked([before EXCEPT !.x = @ + dx])
                             THEN before.x ELSE before.x + dx
                /\ after.y = before.y

\* Specification SpecFault: the tick with exceptions.  Nothing the tick
\* calls raises on the monsters and the player that the code itself builds,
\* so the exception of one monster's resolution is an input here: raised by
\* the call that resolves that monster, before the call has changed anything.

\* the iteration of the for loop of checkPlayerAttacks for a monster in
\* range whose takeDamage raises: the catch logs it and the loop goes on
SweepMonsterRaises ==
    /\ game.pc # 0 /\ game.sub = "sweep"
    /\ game.i > 0
    /\ WithinDistance(player, monsters[game.i], 150)
    /\ game' = [game EXCEPT !.i = @ - 1,
                            !.hits = Append(@, monsters[game.i].id)]
    /\ UNCHANGED <<playerVars, combatVars, last, steps, mapVars, pureVars,
                   skillHeap, playerSkills>>

\* checkMonsterAttacks in which player.takeDamage raises for the k-th
\* monster: the monsters before it have hit, nothing catches the exception
\* in checkMonsterAttacks, checkCollisions, update or animate, so the rest of
\* the loop and of update is skipped and animate requests no frame
CheckMonsterAttacksRaises(k) ==
    /\ game.pc # 0 /\ game.sub = "checkMonsterAttacks"
    /\ k \in 1..Len(monsters)
    /\ WithinDistance(player, monsters[k], 60)
    /\ player' = GameSystem_checkMonsterAttacks(SubSeq(monsters, 1, k - 1), 1,
                                                player, items)
    /\ game' = [game EXCEPT
                   !.pc = 0, !.sub = "none", !.thrown = TRUE,
                   !.monsterHits =
                       @ \o [j \in 1..Len(HittersOf(SubSeq(monsters, 1, k - 1), player)) |->
                               [id |-> HittersOf(SubSeq(monsters, 1, k - 1), player)[j].id,
                                attackSpeed |-> HittersOf(SubSeq(monsters, 1, k - 1),
                                                          player)[j].attackSpeed,
                                at |-> now]]]
    /\ UNCHANGED <<items, combatVars, last, steps, mapVars, pureVars,
                   skillHeap, playerSkills>>

NextFault ==
    \/ NextTick
    \/ SweepMonsterRaises
    \/ \E k \in 1..Len(monsters) : CheckMonsterAttacksRaises(k)

SpecFault == InitTick /\ [][NextFault]_vars

\* C33: an exception of one monster's resolution stays with that monster: no
\* exception leaves update, and whenever update is not running every tick
\* begun has run all its steps, the map refresh, the game-over check and the
\* effect decay included.
C33_ExceptionCaughtPerMonster ==
    /\ ~game.thrown
    /\ game.pc = 0 => Len(game.trace) = game.tick * Len(UpdateOrder)

\* the order of the steps of a tick
TickOrder ==
    <<"updatePlayer", "updateCamera", "checkMonsterSpawn", "updateMonsters",
      "updateSkills", "applyAuraEffects", "applySlowEffects", "checkCollisions",
      "updateMap", "checkGameOver", "updateAttackEffects">>

\* C20: the steps run so far are, tick after tick, the eleven steps in the
\* fixed order, each once: the j-th step run belongs to tick
\* ((j - 1) div 11) + 1 and is the (((j - 1) mod 11) + 1)-th step of the order;
\* between two frames every tick begun is complete.
C20_StepsInFixedOrder ==
    /\ \A j \in 1..Len(game.trace) :
          /\ game.trace[j].step = TickOrder[((j - 1) % Len(TickOrder)) + 1]
          /\ game.trace[j].tick = ((j - 1) \div Len(TickOrder)) + 1
    /\ game.pc = 0 => Len(game.trace) = game.tick * Len(TickOrder)
    /\ game.pc # 0 =>
          /\ game.tick = ((Len(game.trace) + (IF game.sub = "none" THEN 0 ELSE 0 - 1))
                            \div Len(TickOrder)) + 1
          /\ UpdateOrder[game.pc] =
                TickOrder[((Len(game.trace) + (IF game.sub = "none" THEN 0 ELSE 0 - 1))
                             % Len(TickOrder)) + 1]

\* two whole ticks have run, the second one with a monster death in it
C20_Witness ==
    /\ game.pc = 0
    /\ game.tick = 2
    /\ Len(game.trace) = 2 * Len(TickOrder)
    /\ Len(game.deaths) > 0

-----------------------------------------------------------------------------
(* The life of a GameSystem: construction on a canvas, the asynchronous    *)
(* start (sprite preload, then the first animate), the frame loop kept     *)
(* alive by requestAnimationFrame, stop, game over and restartGame.  game  *)
(* holds the instance's own fields and the browser's frame registry:       *)
(* pending is the set of frame handles requested and neither fired nor     *)
(* cancelled, handles counts the handles handed out; animationId 0 is      *)
(* null.  now is the page clock that stamps the frame callbacks.  last is  *)
(* a ghost: the operation that ran last and the one before, game before    *)
(* it, the deltaTime of every update call in milliseconds, whether stop    *)
(* has returned with no start or restartGame called since, and whether a   *)
(* frame callback or an update ran in that condition.                      *)

setupEventListeners ==
    {"keydown", "keyup", "mousemove", "resize", "click",
     "touchstart", "touchmove", "touchend", "touchcancel"}

NoSystem ==
    [instance |-> "none", listeners |-> {}, animationId |-> 0, lastTime |-> 0,
     isGameOver |-> FALSE, startPc |-> "idle", starts |-> 0,
     pending |-> {}, handles |-> 0, cancelled |-> 0, frames |-> 0,
     score |-> 0]

\* new GameSystem(canvasId) without the test of the canvas element
GameSystem_constructor_NoCheck(g, canvas) ==
    [g EXCEPT !.instance = "ready", !.listeners = setupEventListeners]

\* new GameSystem(canvasId); canvas is whether document.getElementById finds
\* an element.  The throw leaves no instance behind.
GameSystem_constructor(g, canvas) ==
    IF ~canvas
    THEN [g EXCEPT !.instance = "failed"]
    ELSE [g EXCEPT !.instance = "ready", !.listeners = setupEventListeners]

\* stop() that cancels without looking at animationId
GameSystem_stop_Unconditional(g) ==
    [g EXCEPT !.pending = @ \ {g.animationId}, !.cancelled = @ + 1,
              !.animationId = 0]

\* stop()
GameSystem_stop(g) ==
    IF g.animationId # 0
    THEN [g EXCEPT !.pending = @ \ {g.animationId}, !.cancelled = @ + 1,
                   !.animationId = 0]
    ELSE g

\* the five monsters of spawnInitialMonsters, on a circle of radius 500
\* around the player (coordinates rounded to whole numbers)
spawnInitialMonsters(ms, p) ==
    ms \o << Monster(p.x + 500, p.y, 1, FALSE, FALSE),
             Monster(p.x + 155, p.y + 476, 1, FALSE, FALSE),
             Monster(p.x - 405, p.y + 294, 1, FALSE, FALSE),
             Monster(p.x - 405, p.y - 294, 1, FALSE, FALSE),
             Monster(p.x + 155, p.y - 476, 1, FALSE, FALSE) >>

\* a checkMonsterSpawn that does not look at the length of the list
checkMonsterSpawn_NoCap(ms, p) ==
    Append(ms, Monster(p.x + 1000, p.y, 1, FALSE, FALSE))

\* checkMonsterSpawn(): one more monster, 1000 away, while fewer than
\* maxMonsters = 10 are in the list
checkMonsterSpawn(ms, p) ==
    IF Len(ms) < 10
    THEN Append(ms, Monster(p.x + 1000, p.y, 1, FALSE, FALSE))
    ELSE ms

\* handleMonsterDeath(monster, index); drop is what monster.dropLoot()
\* returns, and every levelUp draws the smallest gains
handleMonsterDeath(g, p, heap, ms, index, drop) ==
    LET reward == ms[index].experienceReward
        p1 == Player_gainExperience(p, reward,
                                    [i \in 1..LoopDraws |-> <<20, 5, 3>>])
        u == IF drop = <<>> THEN [player |-> p1, items |-> heap]
             ELSE Player_addEquipment(p1, Append(heap, drop[1]), Len(heap) + 1)
    IN  [game |-> [g EXCEPT !.score = @ + reward],
         player |-> u.player, items |-> u.items,
         monsters |-> RemoveAt(ms, index)]

\* what a tick can do to a monster: nothing, or the player's sweep kills the
\* first one, which drops nothing or one item
Deaths ==
    {[kill |-> FALSE, drop |-> <<>>]} \cup
    {[kill |-> TRUE, drop |-> drop] : drop \in DropOutcomes}

\* what update(deltaTime) does in this specification: the spawn check, the
\* death the player's sweep causes, and the monsters' hits of the tick,
\* which sum to damage; checkGameOver follows in animate
LifeUpdate(g, p, heap, ms, damage, death) ==
    LET spawned == checkMonsterSpawn(ms, p)
        d == IF death.kill
             THEN handleMonsterDeath(g, p, heap, spawned, 1, death.drop)
             ELSE [game |-> g, player |-> p, items |-> heap, monsters |-> spawned]
    IN  [d EXCEPT !.player.health = @ - damage * Scale]

\* animate(currentTime): [game, player, items, monsters, ran, deltaTime]
GameSystem_animate(g, p, heap, ms, currentTime, damage, death) ==
    LET deltaTime == currentTime - g.lastTime
        ran == ~g.isGameOver
        u == IF ran THEN LifeUpdate(g, p, heap, ms, damage, death)
             ELSE [game |-> g, player |-> p, items |-> heap, monsters |-> ms]
        handle == g.handles + 1
    IN  [game |-> [u.game EXCEPT !.lastTime = currentTime,
                                 !.isGameOver = @ \/ (ran /\ u.player.health <= 0),
                                 !.animationId = handle,
                                 !.pending = @ \cup {handle},
                                 !.handles = handle,
                                 !.frames = @ + 1],
         player |-> u.player, items |-> u.items, monsters |-> u.monsters,
         ran |-> ran, deltaTime |-> deltaTime]

MaxFrames == 4
MaxStarts == 1
MaxSessionFrames == 6
FrameDeltas == {16, 100}
UpdateDamages == {0, 100}

NoLife ==
    [op |-> "none", prev |-> "none", before |-> NoSystem, deltas |-> <<>>,
     stopped |-> FALSE, afterStop |-> FALSE]

Did(name) == [last EXCEPT !.op = name, !.prev = last.op, !.before = game]

LifeRest ==
    UNCHANGED <<steps, mathRandom, evicted, chunkObj, wc, loot,
                skillHeap, playerSkills>>

\* no monster dies
NoDeath == [kill |-> FALSE, drop |-> <<>>]

\* onMounted: new GameSystem('gameCanvas')
Construct(canvas) ==
    /\ game.instance = "none"
    /\ game' = GameSystem_constructor(game, canvas)
    /\ IF game'.instance = "ready"
       THEN /\ player' = NewPlayer
            /\ mapGen' = MapGenerator(NowStart, 2)
       ELSE UNCHANGED <<player, mapGen>>
    /\ last' = [Did("construct") EXCEPT !.before = game @@ [canvas |-> canvas]]
    /\ UNCHANGED <<items, monsters, now>>
    /\ LifeRest

\* start() up to its await
Start ==
    /\ game.instance = "ready"
    /\ game.startPc = "idle"
    /\ game.starts < MaxStarts
    /\ game' = [game EXCEPT !.startPc = "awaiting", !.starts = @ + 1]
    /\ last' = [Did("start") EXCEPT !.stopped = FALSE]
    /\ UNCHANGED <<player, items, monsters, now, mapGen>>
    /\ LifeRest

\* the preload settles (resolved or rejected: both branches of start do the
\* same) and start goes on: spawnInitialMonsters(), animate().  The monsters
\* just spawned are 500 away, out of reach of the player in this update.
PreloadSettled ==
    /\ game.startPc = "awaiting"
    /\ LET a == GameSystem_animate(game, player, items,
                                   spawnInitialMonsters(monsters, player),
                                   0, 0, NoDeath)
       IN  /\ game' = [a.game EXCEPT !.startPc = "idle"]
           /\ player' = a.player
           /\ items' = a.items
           /\ monsters' = a.monsters
           /\ last' = [Did("preloadSettled") EXCEPT
                          !.deltas = IF a.ran THEN Append(@, a.deltaTime) ELSE @,
                          !.afterStop = @ \/ last.stopped]
    /\ UNCHANGED <<now, mapGen>>
    /\ LifeRest

\* the browser runs a pending frame callback: animate(time)
Frame(handle, delta, damage, death) ==
    /\ handle \in game.pending
    /\ death.kill => monsters # <<>>
    /\ now' = now + delta
    /\ LET a == GameSystem_animate([game EXCEPT !.pending = @ \ {handle}],
                                   player, items, monsters, now', damage, death)
       IN  /\ game' = a.game
           /\ player' = a.player
           /\ items' = a.items
           /\ monsters' = a.monsters
           /\ last' = [Did("frame") EXCEPT
                          !.deltas = IF a.ran THEN Append(@, a.deltaTime) ELSE @,
                          !.afterStop = @ \/ last.stopped]
    /\ UNCHANGED mapGen
    /\ LifeRest

\* stop(), from onUnmounted or any other caller
Stop ==
    /\ game.instance = "ready"
    /\ game' = GameSystem_stop(game)
    /\ last' = [Did("stop") EXCEPT !.stopped = TRUE]
    /\ UNCHANGED <<player, items, monsters, now, mapGen>>
    /\ LifeRest

\* a restartGame that does not call stop() first
RestartGame_NoStop ==
    /\ game.instance = "ready"
    /\ "click" \in game.listeners
    /\ game.isGameOver
    /\ LET a == GameSystem_animate([game EXCEPT !.isGameOver = FALSE,
                                                !.score = 0],
                                   NewPlayer, items,
                                   spawnInitialMonsters(<<>>, NewPlayer),
                                   0, 0, NoDeath)
       IN  /\ game' = a.game
           /\ player' = a.player
           /\ items' = a.items
           /\ monsters' = a.monsters
           /\ last' = [Did("restartGame") EXCEPT
                          !.deltas = IF a.ran THEN Append(@, a.deltaTime) ELSE @,
                          !.stopped = FALSE]
    /\ UNCHANGED <<now, mapGen>>
    /\ LifeRest

\* a click on the restart button of the game-over screen: restartGame():
\* stop(), a new game state, isGameOver = false, spawnInitialMonsters(),
\* animate()
RestartGame ==
    /\ game.instance = "ready"
    /\ "click" \in game.listeners
    /\ game.isGameOver
    /\ LET stopped == GameSystem_stop(game)
           a == GameSystem_animate([stopped EXCEPT !.isGameOver = FALSE,
                                                   !.score = 0],
                                   NewPlayer, items,
                                   spawnInitialMonsters(<<>>, NewPlayer),
                                   0, 0, NoDeath)
       IN  /\ game' = a.game
           /\ player' = a.player
           /\ items' = a.items
           /\ monsters' = a.monsters
           /\ last' = [Did("restartGame") EXCEPT
                          !.deltas = IF a.ran THEN Append(@, a.deltaTime) ELSE @,
                          !.stopped = FALSE]
    /\ UNCHANGED <<now, mapGen>>
    /\ LifeRest

InitLife ==
    /\ player = NoOp
    /\ items = <<>>
    /\ monsters = <<>>
    /\ now = 0
    /\ last = NoLife
    /\ steps = 0
    /\ IdleMap
    /\ IdlePure
    /\ skillHeap = <<>>
    /\ playerSkills = <<>>
    /\ game = NoSystem

NextLife ==
    \/ \E canvas \in BOOLEAN : Construct(canvas)
    \/ Start
    \/ PreloadSettled
    \/ /\ game.frames < MaxFrames
       /\ \E handle \in game.pending, delta \in FrameDeltas,
             damage \in UpdateDamages :
             Frame(handle, delta, damage, NoDeath)
    \/ Stop
    \/ game.frames < MaxFrames /\ RestartGame

SpecLife == InitLife /\ [][NextLife]_vars

\* C21: every update(deltaTime) called by animate, through start, frames,
\* game over and restartGame, receives deltaTime >= 0.
C21_UpdateDeltaNonNegative ==
    \A j \in 1..Len(last.deltas) : last.deltas[j] >= 0

\* C22: after every stop() animationId is null; a stop() with no frame
\* scheduled, a second stop() in a row included, changes no state and
\* cancels nothing.
C22_StopIdempotent ==
    last.op = "stop" =>
        /\ game.animationId = 0
        /\ game.animationId \notin game.pending
        /\ last.before.animationId = 0 => game = last.before
        /\ last.prev = "stop" => game = last.before

\* stop() has run twice in a row, the first one having cancelled a frame
C22_Witness ==
    /\ last.op = "stop"
    /\ last.prev = "stop"
    /\ game.cancelled = 1
    /\ game.frames > 0

\* C24: new GameSystem on a canvas id that matches no element fails and
\* leaves nothing behind: no game state, no listener, no frame scheduled,
\* and nothing can be started; on an existing canvas it succeeds.
C24_MissingCanvasIsFatal ==
    /\ game.instance = "failed" =>
          /\ player = NoOp
          /\ monsters = <<>>
          /\ mapGen = <<>>
          /\ game.listeners = {}
          /\ game.pending = {}
          /\ game.handles = 0
          /\ game.animationId = 0
          /\ game.startPc = "idle"
          /\ ~ENABLED NextLife
    /\ last.op = "construct" =>
          (last.before.canvas <=> game.instance = "ready")
    /\ game.instance = "ready" =>
          /\ player # NoOp
          /\ game.listeners = setupEventListeners
    /\ last.op = "construct" /\ game.instance = "ready" =>
          /\ player = NewPlayer
          /\ game.pending = {}

\* construction has failed for want of the canvas
C24_Witness ==
    /\ last.op = "construct"
    /\ ~last.before.canvas
    /\ game.instance = "failed"

\* C27: once stop() has returned, no frame callback and no update runs until
\* start() or restartGame is called again.
C27_NothingRunsAfterStop ==
    ~last.afterStop

-----------------------------------------------------------------------------
(* Specification SpecAI: one monster driven through Monster.setTarget and  *)
(* Monster.update, with the player somewhere on the monster's horizontal   *)
(* line.  monsters holds the monster, with its target (TRUE when           *)
(* this.target is the player), moveSpeed and wander fields; wc holds the   *)
(* obstacles that stand in the world; last is the call that ran last, with *)
(* the monster, the player and the clock before it.  Times are in          *)
(* milliseconds.                                                           *)

\* hasLineOfSight(start, end, obstacles) with the default resolution 5: the
\* points at i / steps of the segment, each a 1 x 1 box, against the solid
\* obstacles.  The comparisons are multiplied through by steps.
hasLineOfSight(start, end, obstacles) ==
    LET dx == end.x - start.x
        dy == end.y - start.y
        fifths == CHOOSE k \in 0..400 :
                     /\ 25 * k * k <= dx * dx + dy * dy
                     /\ 25 * (k + 1) * (k + 1) > dx * dx + dy * dy
        n == Max(2, fifths)
        Covers(i, obstacle) ==
            /\ obstacle.isSolid
            /\ start.x * n + dx * i < (obstacle.x + obstacle.width) * n
            /\ start.x * n + dx * i + n > obstacle.x * n
            /\ start.y * n + dy * i < (obstacle.y + obstacle.height) * n
            /\ start.y * n + dy * i + n > obstacle.y * n
    IN  ~\E i \in 1..(n - 1), k \in 1..Len(obstacles) : Covers(i, obstacles[k])

\* Monster.setTarget(player): the obstacle list it tests is a fresh []
Monster_setTarget(m, p) ==
    IF WithinDistance(m, p, m.aggroRange)
    THEN IF hasLineOfSight(m, p, <<>>) THEN [m EXCEPT !.target = TRUE] ELSE m
    ELSE m

\* Monster.moveTowardsTarget(deltaTime) for a target on the monster's
\* horizontal line: getDirectionTowards is (1, 0), (-1, 0) or (0, 0)
Monster_moveTowardsTarget(m, p, deltaTime) ==
    LET move == (m.moveSpeed * deltaTime) \div 1000
    IN  IF ~m.target \/ p.x = m.x THEN m
        ELSE [m EXCEPT !.x = IF p.x > m.x THEN @ + move ELSE @ - move]

\* Monster.update(deltaTime) at Date.now() = currentTime: [monster, player].
\* wander is the direction and the interval drawn when the wander timer
\* fires, crit the outcome of the boss's Math.random() < 0.1.
Monster_update(m, p, heap, deltaTime, currentTime, wander, crit) ==
    LET timer == m.wanderTimer + deltaTime
        m1 == IF timer >= m.wanderInterval
              THEN [m EXCEPT !.wanderDirection = wander.direction,
                             !.wanderTimer = 0,
                             !.wanderInterval = wander.interval]
              ELSE [m EXCEPT !.wanderTimer = timer]
    IN  IF ~m1.target THEN [monster |-> m1, player |-> p]
        ELSE IF ~WithinDistance(m1, p, m1.aggroRange)
        THEN [monster |-> [m1 EXCEPT !.target = FALSE], player |-> p]
        ELSE IF ~WithinDistance(m1, p, m1.attackRange)
        THEN [monster |-> Monster_moveTowardsTarget(m1, p, deltaTime), player |-> p]
        ELSE LET a == Monster_attackTarget(m1, p, heap, currentTime, crit)
             IN  [monster |-> a.monster, player |-> a.player]

MaxAISteps == 3

AIDeltas == {0, 500, 2000}

\* where the player stands: within attackRange, within every aggroRange,
\* within the elite's and the boss's only, beyond all
AIPlayerSpots == {30, 100, 250, 500}

WanderDraws ==
    { [direction |-> <<1, 0>>, interval |-> 2000],
      [direction |-> <<0 - 1, 0>>, interval |-> 5000] }

\* what stands in the world: nothing, or a wall across the line from the
\* monster to the player
AIWorlds ==
    { <<>>,
      << [obstacleType |-> "wall", x |-> 10, y |-> 0 - 10, width |-> 10,
          height |-> 20, isSolid |-> TRUE] >> }

\* a freshly constructed monster at the origin
AIMonster(isElite, isBoss) ==
    Monster(0, 0, 1, isElite, isBoss)
      @@ [target |-> FALSE,
          moveSpeed |-> IF isBoss THEN 80 ELSE IF isElite THEN 120 ELSE 150,
          wanderDirection |-> <<1, 0>>, wanderTimer |-> 0,
          wanderInterval |-> 2000]

Called(name) ==
    [op |-> name, monster |-> monsters[1], player |-> player, now |-> now]

AIRest ==
    UNCHANGED <<items, mapVars, wc, loot, tickVars>>

\* monster.setTarget(player)
SetTarget ==
    /\ steps < MaxAISteps
    /\ monsters' = <<Monster_setTarget(monsters[1], player)>>
    /\ last' = Called("setTarget")
    /\ steps' = steps + 1
    /\ UNCHANGED <<player, now>>
    /\ AIRest

\* monster.update(deltaTime), deltaTime after the call before
MonsterUpdate(deltaTime, wander, crit) ==
    /\ steps < MaxAISteps
    /\ now' = now + deltaTime
    /\ \E u \in {Monster_update(monsters[1], player, items, deltaTime, now',
                                wander, crit)} :
          /\ monsters' = <<u.monster>>
          /\ player' = u.player
    /\ last' = Called("update")
    /\ steps' = steps + 1
    /\ AIRest

\* the player walks to another spot of the line
PlayerWalks(x) ==
    /\ steps < MaxAISteps
    /\ x # player.x
    /\ player' = [player EXCEPT !.x = x]
    /\ last' = Called("walk")
    /\ steps' = steps + 1
    /\ UNCHANGED <<monsters, now>>
    /\ AIRest

InitAI ==
    /\ \E x \in AIPlayerSpots : player = [NewPlayer EXCEPT !.x = x]
    /\ items = <<>>
    /\ \E kind \in {<<FALSE, FALSE>>, <<TRUE, FALSE>>, <<FALSE, TRUE>>} :
          monsters = <<AIMonster(kind[1], kind[2])>>
    /\ now = NowStart
    /\ last = NoOp
    /\ steps = 0
    /\ IdleMap
    /\ IdleTick
    /\ loot = NoOp
    /\ \E world \in AIWorlds : wc = [op |-> "world", obstacles |-> world]

NextAI ==
    \/ SetTarget
    \/ \E deltaTime \in AIDeltas :
          \E wander \in (IF monsters[1].wanderTimer + deltaTime
                              >= monsters[1].wanderInterval
                         THEN WanderDraws
                         ELSE {[direction |-> monsters[1].wanderDirection,
                                interval |-> monsters[1].wanderInterval]}),
             crit \in (IF monsters[1].isBoss THEN BOOLEAN ELSE {FALSE}) :
             MonsterUpdate(deltaTime, wander, crit)
    \/ \E x \in AIPlayerSpots : PlayerWalks(x)

SpecAI == InitAI /\ [][NextAI]_vars

\* C30: setTarget acquires the player only within aggroRange and with line
\* of sight through the obstacles of the world; an update with a target
\* beyond aggroRange clears the target and neither moves nor attacks; with
\* the target within aggroRange and beyond attackRange it moves toward the
\* target and does not attack; within attackRange it does not move and
\* attacks exactly when its cadence allows; an update without a target
\* never attacks.
C30_MonsterAITransitions ==
    LET m == monsters[1]
        Still == m.x = last.monster.x /\ m.y = last.monster.y
        NoAttack == /\ player = last.player
                    /\ m.lastAttackTime = last.monster.lastAttackTime
    IN  /\ (last.op = "setTarget" /\ m.target /\ ~last.monster.target) =>
              /\ WithinDistance(last.monster, player, m.aggroRange)
              /\ hasLineOfSight(last.monster, player, wc.obstacles)
        /\ (last.op = "update" /\ ~last.monster.target) =>
              /\ ~m.target
              /\ NoAttack
        /\ (last.op = "update" /\ last.monster.target) =>
              IF ~WithinDistance(last.monster, last.player, m.aggroRange)
              THEN ~m.target /\ Still /\ NoAttack
              ELSE IF ~WithinDistance(last.monster, last.player, m.attackRange)
              THEN /\ m.target
                   /\ m.y = last.monster.y
                   /\ Abs(last.player.x - m.x) =
                         Abs(Abs(last.player.x - last.monster.x)
                               - (m.moveSpeed * (now - last.now)) \div 1000)
                   /\ NoAttack
              ELSE /\ m.target
                   /\ Still
                   /\ IF now - last.monster.lastAttackTime >= m.attackSpeed
                      THEN /\ m.lastAttackTime = now
                           /\ player.health < last.player.health
                      ELSE NoAttack

-----------------------------------------------------------------------------
(* Specification SpecAttack: the equipment operations of SpecEquip and     *)
(* Player.performAttack on whatever the player then holds.                 *)

\* the values of Date.now() at a performAttack call
AttackTimes == {NowStart, NowStart + ClockStep}

\* damage = player.performAttack()
PerformAttack(currentTime, crit) ==
    /\ currentTime >= player.lastAttackTime
    /\ LET r == Player_performAttack(player, items, currentTime, crit)
       IN  /\ player' = r.player
           /\ last' = [op |-> "performAttack", damage |-> r.damage,
                       crit |-> crit]
    /\ UNCHANGED <<tickVars, items, combatVars, steps, mapVars, pureVars>>

NextAttack ==
    \/ NextEquip
    \/ \E currentTime \in AttackTimes, crit \in BOOLEAN :
          PerformAttack(currentTime, crit)

SpecAttack == InitEquip /\ [][NextAttack]_vars

\* C35: a successful non-critical performAttack returns the player's base
\* attack plus the attack of every equipped item, each counted once, however
\* the item came to be equipped.
C35_AttackCountsEachBonusOnce ==
    (last.op = "performAttack" /\ last.damage # 0 /\ ~last.crit)
        => last.damage =
              (NewPlayer.attack
                 + EquippedSum(player.equipment, items, 1, "attack")) * Scale

-----------------------------------------------------------------------------
(* Specification SpecPoints: the skill points of a player that gains       *)
(* experience (and levels) and learns or upgrades the skills of the pool.  *)

\* experience gains: less than a level, and two levels at once from level 1
PointAmounts == {40, 250}

NextPoints ==
    \/ \E amount \in PointAmounts, gain \in LevelUpGains :
          GainExperience(amount, [i \in 1..LoopDraws |-> gain])
    \/ \E ref \in 1..4 : LearnSkill(ref)

SpecPoints == InitSkill /\ [][NextPoints]_vars

\* the step from the unprimed to the primed state keeps the skill point
\* account: one point per level gained, one point less for a learnSkill that
\* adds a skill at level 1 or raises a learnt skill below its maxLevel by
\* one, and nothing changed by any other learnSkill
SkillPointStep ==
    /\ last'.op = "Player.gainExperience" =>
          player'.skillPoints = player.skillPoints + (player'.level - player.level)
    /\ last'.op = "learnSkill" =>
          LET id == skillHeap[last'.ref].id
              learnt == {i \in 1..Len(playerSkills) :
                           skillHeap[playerSkills[i]].id = id}
              atMaxLevel == \E i \in learnt :
                               skillHeap[playerSkills[i]].level
                                  = skillHeap[playerSkills[i]].maxLevel
          IN  IF player.skillPoints = 0 \/ atMaxLevel
              THEN /\ player'.skillPoints = player.skillPoints
                   /\ playerSkills' = playerSkills
                   /\ skillHeap' = skillHeap
              ELSE /\ player'.skillPoints = player.skillPoints - 1
                   /\ IF learnt = {}
                      THEN /\ Len(playerSkills') = Len(playerSkills) + 1
                           /\ SubSeq(playerSkills', 1, Len(playerSkills))
                                 = playerSkills
                           /\ skillHeap'[playerSkills'[Len(playerSkills')]].id = id
                           /\ skillHeap'[playerSkills'[Len(playerSkills')]].level = 1
                      ELSE /\ playerSkills' = playerSkills
                           /\ \A i \in learnt :
                                 skillHeap'[playerSkills[i]].level
                                    = skillHeap[playerSkills[i]].level + 1

\* C36: skillPoints is never negative; it grows by one per levelUp and
\* shrinks by one per learnSkill that learns a new skill or raises a learnt
\* one; learnSkill with no point left, or for a skill at its maxLevel,
\* changes neither skillPoints nor the skill list nor any skill level.
C36_SkillPointAccounting ==
    [](player.skillPoints >= 0) /\ [][SkillPointStep]_vars

\* a player that has levelled up spends its last point on raising a learnt
\* skill
C36_Witness ==
    /\ last.op = "learnSkill"
    /\ last.skillPointsBefore = 1
    /\ player.skillPoints = 0
    /\ player.level > 1
    /\ \E i \in 1..Len(playerSkills) : skillHeap[playerSkills[i]].level > 1

\* a learnSkill for a skill at its maxLevel, with points to spend
C36_WitnessAtMaxLevel ==
    /\ last.op = "learnSkill"
    /\ last.skillPointsBefore > 0
    /\ player.skillPoints = last.skillPointsBefore
    /\ player.level > 1

-----------------------------------------------------------------------------
(* Specification SpecSpawner: a MonsterSpawner, its updateDifficulty and   *)
(* its spawnMonster.  The spawner is held in game; eliteChance and         *)
(* bossChance are in thousandths; a Math.random() draw is                  *)
(* d / DrawResolution.                                                     *)

\* new MonsterSpawner(minLevel)
MonsterSpawner(minLevel) ==
    [minLevel |-> minLevel, maxLevel |-> minLevel + 2,
     eliteChance |-> 100, bossChance |-> 20]

\* MonsterSpawner.updateDifficulty(playerLevel)
MonsterSpawner_updateDifficulty(spawner, playerLevel) ==
    [minLevel |-> Max(1, playerLevel - 1),
     maxLevel |-> playerLevel + 3,
     eliteChance |-> Min(200, 100 + playerLevel * 5),
     bossChance |-> Min(50, 20 + playerLevel)]

\* Math.random() < chance / 1000 when Math.random() returns d / DrawResolution
RandomBelow(d, chance) == d * 1000 < chance * DrawResolution

\* randomInt(min, max) when Math.random() returns d / DrawResolution
randomInt(min, max, d) == (d * (max - min + 1)) \div DrawResolution + min

\* a spawnMonster that draws isElite without looking at isBoss
MonsterSpawner_spawnMonster_BothFlags(spawner, x, y, draws) ==
    LET isBoss == RandomBelow(draws[1], spawner.bossChance)
        isElite == RandomBelow(draws[2], spawner.eliteChance)
        level == IF isBoss THEN spawner.maxLevel + randomInt(0, 2, draws[3])
                 ELSE randomInt(spawner.minLevel, spawner.maxLevel, draws[3])
    IN  Monster(x, y, level, isElite, isBoss)

\* MonsterSpawner.spawnMonster(x, y); draws are the boss draw, the elite
\* draw (made only when the boss draw failed) and the level draw
MonsterSpawner_spawnMonster(spawner, x, y, draws) ==
    LET isBoss == RandomBelow(draws[1], spawner.bossChance)
        isElite == ~isBoss /\ RandomBelow(draws[2], spawner.eliteChance)
        level == IF isBoss THEN spawner.maxLevel + randomInt(0, 2, draws[3])
                 ELSE randomInt(spawner.minLevel, spawner.maxLevel, draws[3])
    IN  Monster(x, y, level, isElite, isBoss)

\* the minLevel a spawner is constructed with
SpawnerMinLevels == {1, 5}

\* the player levels handed to updateDifficulty: the first levels, and
\* levels at which eliteChance and bossChance have reached their caps
DifficultyLevels == {1, 2, 10, 20, 40}

\* the boss and elite draws: 0, a draw below eliteChance only, and two above
FlagDraws == {0, 1, 3, DrawResolution - 1}

UpdateDifficulty(playerLevel) ==
    /\ game' = MonsterSpawner_updateDifficulty(game, playerLevel)
    /\ last' = [op |-> "updateDifficulty", playerLevel |-> playerLevel]
    /\ UNCHANGED <<playerVars, combatVars, steps, mapVars, pureVars,
                   skillHeap, playerSkills>>

\* monster = spawner.spawnMonster(100, 0)
SpawnMonster(draws) ==
    /\ last' = [op |-> "spawnMonster", draws |-> draws,
                monster |-> MonsterSpawner_spawnMonster(game, 100, 0, draws)]
    /\ UNCHANGED <<playerVars, combatVars, steps, mapVars, pureVars, tickVars>>

InitSpawner ==
    /\ IdlePlayer
    /\ last = NoOp
    /\ steps = 0
    /\ IdleMap
    /\ IdlePure
    /\ skillHeap = <<>>
    /\ playerSkills = <<>>
    /\ \E minLevel \in SpawnerMinLevels : game = MonsterSpawner(minLevel)

NextSpawner ==
    \/ \E playerLevel \in DifficultyLevels : UpdateDifficulty(playerLevel)
    \/ \E d1 \in FlagDraws, d2 \in FlagDraws, d3 \in 0..(DrawResolution - 1) :
          SpawnMonster(<<d1, d2, d3>>)

SpecSpawner == InitSpawner /\ [][NextSpawner]_vars

-----------------------------------------------------------------------------
(* Specification SpecDrop: Monster.dropLoot on a monster of any tier and   *)
(* level, beside a player of level 1 or 3.  A stat that generateLootStats     *)
(* does not set is 0.                                                      *)

\* twice the rarityMultiplier of generateLootStats
LootRarityMultiplierTimes2(rarity) ==
    CASE rarity = "COMMON" -> 2
      [] rarity = "UNCOMMON" -> 3
      [] rarity = "RARE" -> 4
      [] rarity = "EPIC" -> 6
      [] rarity = "LEGENDARY" -> 10

\* Monster.generateLootStats(equipmentType, rarity)
Monster_generateLootStats(m, equipmentType, rarity) ==
    LET baseStat == m.level * 5
        twice == LootRarityMultiplierTimes2(rarity)
        none == [attack |-> 0, defense |-> 0, maxHealth |-> 0,
                 criticalRate |-> 0, lifesteal |-> 0]
    IN  CASE equipmentType = "WEAPON" ->
                [none EXCEPT !.attack = (baseStat * twice) \div 2]
          [] equipmentType = "ARMOR" ->
                [none EXCEPT !.defense = (baseStat * twice) \div 2,
                             !.maxHealth = (baseStat * 2 * twice) \div 2]
          [] equipmentType = "ACCESSORY" ->
                [none EXCEPT !.criticalRate = (baseStat * twice) \div 20,
                             !.lifesteal = (baseStat * 5 * twice) \div 200]

\* a dropLoot that draws every monster's rarity from the normal table
Monster_dropLoot_NoTier(m, draws) ==
    LET dropChance == IF m.isBoss THEN 800 ELSE IF m.isElite THEN 500 ELSE 200
        equipmentType ==
            EquipmentTypeKeys[(draws[2] * Len(EquipmentTypeKeys))
                                 \div DrawResolution + 1]
        rarity == IF RandomBelow(draws[3], 500) THEN "COMMON"
                  ELSE IF RandomBelow(draws[3], 800) THEN "UNCOMMON"
                  ELSE "RARE"
    IN  IF RandomBelow(draws[1], dropChance)
        THEN << [type |-> equipmentType, rarity |-> toLowerCase(rarity),
                 stats |-> Monster_generateLootStats(m, equipmentType, rarity),
                 isEquipped |-> FALSE, methods |-> FALSE] >>
        ELSE <<>>

\* Monster.dropLoot(); draws are the drop draw, the type draw and
\* rarityChance
Monster_dropLoot(m, draws) ==
    LET dropChance == IF m.isBoss THEN 800 ELSE IF m.isElite THEN 500 ELSE 200
        equipmentType ==
            EquipmentTypeKeys[(draws[2] * Len(EquipmentTypeKeys))
                                 \div DrawResolution + 1]
        rarity ==
            IF m.isBoss
            THEN (IF RandomBelow(draws[3], 400) THEN "EPIC" ELSE "LEGENDARY")
            ELSE IF m.isElite
            THEN (IF RandomBelow(draws[3], 600) THEN "RARE" ELSE "EPIC")
            ELSE IF RandomBelow(draws[3], 500) THEN "COMMON"
            ELSE IF RandomBelow(draws[3], 800) THEN "UNCOMMON"
            ELSE "RARE"
    IN  IF RandomBelow(draws[1], dropChance)
        THEN << [type |-> equipmentType, rarity |-> toLowerCase(rarity),
                 stats |-> Monster_generateLootStats(m, equipmentType, rarity),
                 isEquipped |-> FALSE, methods |-> FALSE] >>
        ELSE <<>>

\* the levels of the monster that dies
DropLevels == {1, 3, 7}

\* the drop draws: below every dropChance, between them, above them all
DropDraws == {0, 5, 12, DrawResolution - 1}

\* the player beside the monster: a new one, and one that has gained two
\* levels
DropPlayers ==
    {NewPlayer,
     Player_gainExperience(NewPlayer, 250, [i \in 1..LoopDraws |-> <<20, 5, 3>>])}

\* loot = monsters[1].dropLoot()
DropLoot(draws) ==
    /\ last.op = "none"
    /\ last' = [op |-> "dropLoot", draws |-> draws,
                loot |-> Monster_dropLoot(monsters[1], draws)]
    /\ UNCHANGED <<playerVars, combatVars, steps, mapVars, pureVars, tickVars>>

\* the player picks the dropped item up, as handleMonsterDeath does
PickUp ==
    /\ last.op = "dropLoot"
    /\ last.loot # <<>>
    /\ LET r == Player_addEquipment(player, <<last.loot[1]>>, 1)
       IN  /\ player' = r.player
           /\ items' = r.items
    /\ last' = [op |-> "addEquipment"]
    /\ UNCHANGED <<combatVars, steps, mapVars, pureVars, tickVars>>

InitDrop ==
    /\ player \in DropPlayers
    /\ items = <<>>
    /\ \E level \in DropLevels, kind \in Kinds :
          monsters = <<Monster(100, 0, level, kind[1], kind[2])>>
    /\ now = 0
    /\ last = NoOp
    /\ steps = 0
    /\ IdleTick
    /\ IdleMap
    /\ IdlePure

NextDrop ==
    \/ \E d1 \in DropDraws, d2 \in OtherDraws, d3 \in 0..(DrawResolution - 1) :
          DropLoot(<<d1, d2, d3>>)
    \/ PickUp

SpecDrop == InitDrop /\ [][NextDrop]_vars

\* the stats of an item of the given type and rarity dropped by a monster of
\* the given level: level * 5 times the rarity multiplier 1, 1.5, 2, 3, 5,
\* doubled for maxHealth, a tenth for criticalRate, a twentieth for lifesteal
ExpectedLootStats(type, rarity, level) ==
    LET tenTimes == CASE rarity = "common" -> 10
                      [] rarity = "uncommon" -> 15
                      [] rarity = "rare" -> 20
                      [] rarity = "epic" -> 30
                      [] rarity = "legendary" -> 50
        magnitude == level * 5 * tenTimes
    IN  [attack |-> IF type = "WEAPON" THEN magnitude \div 10 ELSE 0,
         defense |-> IF type = "ARMOR" THEN magnitude \div 10 ELSE 0,
         maxHealth |-> IF type = "ARMOR" THEN (2 * magnitude) \div 10 ELSE 0,
         criticalRate |-> IF type = "ACCESSORY" THEN magnitude \div 100 ELSE 0,
         lifesteal |-> IF type = "ACCESSORY" THEN magnitude \div 200 ELSE 0]

\* C38: dropLoot returns at most one item, never equipped, of rarity epic or
\* legendary for a boss, rare or epic for an elite, common, uncommon or rare
\* for a normal monster, with stats fixed by the monster's level and the
\* rarity multiplier, whatever the player's level.
C38_DropLootByTier ==
    last.op = "dropLoot" =>
        /\ Len(last.loot) <= 1
        /\ \A i \in 1..Len(last.loot) :
              LET item == last.loot[i]
                  m == monsters[1]
              IN  /\ ~item.isEquipped
                  /\ item.rarity \in
                        (IF m.isBoss THEN {"epic", "legendary"}
                         ELSE IF m.isElite THEN {"rare", "epic"}
                         ELSE {"common", "uncommon", "rare"})
                  /\ item.stats = ExpectedLootStats(item.type, item.rarity, m.level)

\* an elite of level 3 has dropped an epic accessory beside a player of
\* level 3
C38_Witness ==
    /\ last.op = "dropLoot"
    /\ Len(last.loot) = 1
    /\ monsters[1].isElite
    /\ monsters[1].level = 3
    /\ player.level = 3
    /\ last.loot[1].rarity = "epic"
    /\ last.loot[1].type = "ACCESSORY"
    /\ last.loot[1].stats.criticalRate = 4

-----------------------------------------------------------------------------
(* Specification SpecSession: the GameSystem as the App component drives   *)
(* it.  onMounted constructs it and calls start() once, the browser fires  *)
(* the frames, the player may click the restart button, onUnmounted calls  *)
(* stop().                                                                 *)

\* onMounted: new GameSystem('gameCanvas'), then start() up to its await;
\* the constructor's throw ends the handler before start() is called
OnMounted(canvas) ==
    /\ game.instance = "none"
    /\ LET g == GameSystem_constructor(game, canvas)
       IN  IF g.instance = "ready"
           THEN /\ game' = [g EXCEPT !.startPc = "awaiting", !.starts = @ + 1]
                /\ player' = NewPlayer
                /\ mapGen' = MapGenerator(NowStart, 2)
           ELSE /\ game' = g
                /\ UNCHANGED <<player, mapGen>>
    /\ last' = [Did("start") EXCEPT !.before = game @@ [canvas |-> canvas]]
    /\ UNCHANGED <<items, monsters, now>>
    /\ LifeRest

NextSession ==
    \/ \E canvas \in BOOLEAN : OnMounted(canvas)
    \/ PreloadSettled
    \/ /\ game.frames < MaxSessionFrames
       /\ \E handle \in game.pending, delta \in FrameDeltas,
             damage \in UpdateDamages, death \in Deaths :
             Frame(handle, delta, damage, death)
    \/ Stop
    \/ game.frames < MaxSessionFrames /\ RestartGame

SpecSession == InitLife /\ [][NextSession]_vars

\* what restartGame leaves behind but for the monsters: a new player with no
\* skills or equipment, score 0, the game-over flag cleared, one frame
\* scheduled
FreshSession ==
    /\ player.level = 1
    /\ player.health = 100 * Scale
    /\ player.maxHealth = 100 * Scale
    /\ player.experience = 0
    /\ player.experienceToNextLevel = 100
    /\ player.equipment = <<>>
    /\ player.inventory = <<>>
    /\ playerSkills = <<>>
    /\ game.score = 0
    /\ ~game.isGameOver
    /\ game.pending = {game.animationId}
    /\ game.animationId # 0

\* C39 as stated: when restartGame returns the session is fresh and holds
\* exactly five monsters.
C39_RestartYieldsFiveMonsters ==
    last.op = "restartGame" => (FreshSession /\ Len(monsters) = 5)

\* C39 as amended: when restartGame returns the session is fresh and holds
\* six monsters, the five of spawnInitialMonsters and the one added by the
\* spawn check of the update that restartGame's own animate() runs, which is
\* also what start() leaves behind.
C39_RestartYieldsFreshSession ==
    /\ last.op = "restartGame" =>
          /\ FreshSession
          /\ Len(monsters) = 6
          /\ monsters =
                checkMonsterSpawn(spawnInitialMonsters(<<>>, NewPlayer), NewPlayer)
    /\ last.op = "preloadSettled" => Len(monsters) = 6

\* restartGame has run on a game that was over with a score and a picked-up
\* item, its frame loop still scheduled
C39_Witness ==
    /\ last.op = "restartGame"
    /\ last.before.isGameOver
    /\ last.before.score > 0
    /\ last.before.pending # {}
    /\ items # <<>>

\* C40: the monster list never holds more than 10 monsters, and no step
\* other than the start of a session adds more than one.
C40_AtMostTenMonsters ==
    /\ [](Len(monsters) <= 10)
    /\ [][last'.op \notin {"preloadSettled", "restartGame"}
            => Len(monsters') <= Len(monsters) + 1]_vars

\* the spawn check has run on a full list: ten monsters after six updates
\* without a death
C40_Witness ==
    /\ Len(monsters) = 10
    /\ last.op = "frame"
    /\ Len(last.deltas) = 6
    /\ game.score = 0

====
